---------------------------- MODULE Spec2Model ----------------------------
(***************************************************************************)
(* Campaign Insight Accelerator: the dataset aggregator (dataLoader.ts),   *)
(* its fallback wrappers (mockData.ts) and the Dashboard component that    *)
(* drives them (App.tsx).                                                  *)
(*                                                                         *)
(* Numbers.  roi, engagement_rate and reach are integers.  A value that    *)
(* the code rounds with toFixed(k) is held as the integer count of 10^-k   *)
(* units (avgROI 4.2 is 42 tenths).  An unrounded quotient is held as a    *)
(* reduced fraction [num, den].                                            *)
(* Dates.  An ISO date-time string is a record [day, tick]; new Date(s)    *)
(* .getTime() is GetTime(s).                                               *)
(* Strings that the code takes apart (sensor_type) are sequences of        *)
(* one-character strings.  Array.prototype.filter is SelectSeq.            *)
(***************************************************************************)
EXTENDS Integers, Sequences, FiniteSets, TLC

VARIABLES
    dataCache,      \* dataLoader.ts: the module-level cache object
    calls,          \* the loadRealDataset() invocations, by call id
    lastQuery,      \* the most recent query call: [op, result]
    mounted,        \* Dashboard: "no" | "yes" | "gone"
    interval,       \* Dashboard: TRUE while the 30 s interval timer is armed
    loading,        \* Dashboard: useState(true)
    dashboardData,  \* Dashboard: useState(null)
    sensorMetrics,  \* Dashboard: useState(null)
    requests,       \* retrain function: the requests it serves, by request id
    jobs,           \* the retraining_jobs table, in insertion order
    webhookCalls,   \* the POSTs made to RETRAINING_WEBHOOK_URL, in order
    ask,            \* AskCes: its state and its handleSubmit() run
    api,            \* apiClient.fetch(): its calls, by call id
    files,          \* DataUpload: useState<UploadedFile[]>([])
    timers          \* DataUpload: the timers of simulateUpload, by file id

aggregatorVars == <<dataCache, calls, lastQuery, mounted, interval, loading,
                    dashboardData, sensorMetrics>>
retrainVars == <<requests, jobs, webhookCalls>>
askVars == <<ask, api>>
uploadVars == <<files, timers>>
otherVars == <<retrainVars, askVars, uploadVars>>

vars == <<aggregatorVars, otherVars>>

---------------------------------------------------------------------------
(* Bounds *)

MaxCalls == 2       \* loadRealDataset() invocations in one behaviour
MaxRows == 3        \* rows of a generated collection
MaxDay == 2         \* days a generated date ranges over
TicksPerDay == 2    \* instants distinguished inside one day

CallIds == 1..MaxCalls
Days == 1..MaxDay

---------------------------------------------------------------------------
(* Values *)

Resources == {"campaigns", "metrics", "assets", "sensors", "models", "summary"}

Date(d, t) == [day |-> d, tick |-> t]

\* new Date(s).getTime()
GetTime(s) == s.day * TicksPerDay + s.tick

\* s.split('T')[0]
DatePart(s) == [day |-> s.day, tick |-> 0]

Min(a, b) == IF a <= b THEN a ELSE b
Max(a, b) == IF a >= b THEN a ELSE b

RECURSIVE GCD(_, _)
GCD(a, b) == IF b = 0 THEN a ELSE GCD(b, a % b)

\* the quotient n / d of two non-negative integers; a quotient by zero is
\* NaN (0/0) or Infinity (n/0), held with a zero denominator
Frac(n, d) ==
    IF d = 0 THEN [num |-> IF n = 0 THEN 0 ELSE 1, den |-> 0]
    ELSE LET g == GCD(n, d) IN [num |-> n \div g, den |-> d \div g]

Zero == [num |-> 0, den |-> 1]

\* Math.round(n / d) and (n / d).toFixed(0): nearest integer, ties upward
RoundDiv(n, d) == (2 * n + d) \div (2 * d)

\* Number((n / d).toFixed(k)) in units of 10^-k
RECURSIVE Pow10(_)
Pow10(k) == IF k = 0 THEN 1 ELSE 10 * Pow10(k - 1)
ToFixed(n, d, k) == RoundDiv(n * Pow10(k), d)

\* s.reduce((sum, m) => sum + m.field, 0), and the same sum over the rows
\* lo..hi of s
RECURSIVE SumRange(_, _, _, _)
SumRange(s, field, lo, hi) ==
    IF lo > hi THEN 0
    ELSE IF lo = hi THEN s[lo][field]
    ELSE LET mid == (lo + hi) \div 2
         IN  SumRange(s, field, lo, mid) + SumRange(s, field, mid + 1, hi)

SumOver(s, field) == SumRange(s, field, 1, Len(s))

\* Array.prototype.slice(from, to) with 0-based bounds, negative ones
\* counted from the end
SliceIndex(n, len) == IF n < 0 THEN Max(len + n, 0) ELSE Min(n, len)
Slice(s, from, to) ==
    LET a == SliceIndex(from, Len(s))
        b == SliceIndex(to, Len(s))
    IN  IF a >= b THEN <<>> ELSE SubSeq(s, a + 1, b)

\* Array.prototype.sort(compare) for a comparator that subtracts one numeric
\* key from the other: keys[i] is the key of s[i], ascending.  The sort is
\* stable: an element overtakes another only when its key is smaller.
\* The result is the sequence of indices of s in sorted order.
RECURSIVE InsertIndex(_, _, _)
InsertIndex(sorted, i, keys) ==
    IF sorted = <<>> THEN <<i>>
    ELSE IF keys[i] < keys[sorted[1]] THEN <<i>> \o sorted
         ELSE <<sorted[1]>> \o InsertIndex(Tail(sorted), i, keys)

RECURSIVE SortedIndices(_, _)
SortedIndices(n, keys) ==
    IF n = 0 THEN <<>>
    ELSE InsertIndex(SortedIndices(n - 1, keys), n, keys)

SortByKey(s, keys) ==
    LET idx == SortedIndices(Len(s), keys)
    IN  [i \in 1..Len(s) |-> s[idx[i]]]

---------------------------------------------------------------------------
(* The cache.  A field that the cache object does not have (undefined) is  *)
(* Absent; a field that a load wrote is Some(l, v): the value v, and the   *)
(* id l of the loadRealDataset() call that produced it.                    *)

Absent == [present |-> FALSE, batch |-> 0, value |-> <<>>]
Some(l, v) == [present |-> TRUE, batch |-> l, value |-> v]

\* let dataCache = {}
EmptyCache == [r \in Resources |-> Absent]

\* x || []
OrEmpty(field) == IF field.present THEN field.value ELSE <<>>

---------------------------------------------------------------------------
(* Math.random().  A call that draws random numbers takes the stream of    *)
(* its draws, each in hundredths (0..99): rnd[i] is the i-th draw.         *)

StreamLen == 16
RandomDraws == {25, 75}
Streams == { [i \in 1..StreamLen |-> v] : v \in RandomDraws }
Drop(rnd, n) == [i \in 1..(StreamLen - n) |-> rnd[i + n]]

---------------------------------------------------------------------------
(* Queries *)

DefaultLimit == 10
DefaultDays == 30
WindowRows == 7
RecentRows == 1000

\* dataCache.campaigns.sort((a, b) => created_at(b) - created_at(a))
SortCampaigns_Ascending(c) ==
    SortByKey(c, [i \in 1..Len(c) |-> GetTime(c[i].created_at)])

SortCampaigns(c) == SortByKey(c, [i \in 1..Len(c) |-> 0 - GetTime(c[i].created_at)])

getLatestCampaigns(cache, limit) ==
    IF ~cache.campaigns.present THEN <<>>
    ELSE Slice(SortCampaigns(cache.campaigns.value), 0, limit)

\* what getLatestCampaigns leaves in the cache: Array.prototype.sort sorts
\* the cached array itself
CacheAfterLatestCampaigns(cache) ==
    IF ~cache.campaigns.present THEN cache
    ELSE [cache EXCEPT !.campaigns.value = SortCampaigns(@)]

getCampaignMetrics_Descending(cache, campaignId) ==
    IF ~cache.metrics.present THEN <<>>
    ELSE LET mine == SelectSeq(cache.metrics.value,
                            LAMBDA m : m.campaign_id = campaignId)
         IN  SortByKey(mine, [i \in 1..Len(mine) |-> 0 - GetTime(mine[i].date)])

getCampaignMetrics(cache, campaignId) ==
    IF ~cache.metrics.present THEN <<>>
    ELSE LET mine == SelectSeq(cache.metrics.value,
                            LAMBDA m : m.campaign_id = campaignId)
         IN  SortByKey(mine, [i \in 1..Len(mine) |-> GetTime(mine[i].date)])

getActiveCampaigns_ExclusiveEnd(cache, now) ==
    IF ~cache.campaigns.present THEN <<>>
    ELSE SelectSeq(cache.campaigns.value,
                LAMBDA c : /\ c.status = "Active"
                           /\ GetTime(c.start_date) <= GetTime(now)
                           /\ GetTime(c.end_date) > GetTime(now))

getActiveCampaigns(cache, now) ==
    IF ~cache.campaigns.present THEN <<>>
    ELSE SelectSeq(cache.campaigns.value,
                LAMBDA c : /\ c.status = "Active"
                           /\ GetTime(c.start_date) <= GetTime(now)
                           /\ GetTime(c.end_date) >= GetTime(now))

\* the metric rows getBrandPerformance uses for one campaign
CampaignWindow_Unbounded(metrics, campaignId) ==
    LET mine == SelectSeq(metrics, LAMBDA m : m.campaign_id = campaignId)
    IN  SortByKey(mine, [i \in 1..Len(mine) |-> 0 - GetTime(mine[i].date)])

CampaignWindow(metrics, campaignId) ==
    LET mine == SelectSeq(metrics, LAMBDA m : m.campaign_id = campaignId)
        desc == SortByKey(mine, [i \in 1..Len(mine) |-> 0 - GetTime(mine[i].date)])
    IN  Slice(desc, 0, WindowRows)

\* the position of key k in an insertion-ordered object, 0 when it has none
RECURSIVE IndexOf(_, _, _)
IndexOf(entries, field, k) ==
    IF entries = <<>> THEN 0
    ELSE IF entries[Len(entries)][field] = k THEN Len(entries)
         ELSE IndexOf(SubSeq(entries, 1, Len(entries) - 1), field, k)

BrandStep_NoGuard(stats, campaign, metrics) ==
    LET known == IndexOf(stats, "brand", campaign.brand)
        s1 == IF known = 0
              THEN Append(stats, [brand |-> campaign.brand, campaigns |-> 0,
                                  avgROI |-> Zero, avgEngagement |-> Zero,
                                  totalReach |-> 0])
              ELSE stats
        i == IF known = 0 THEN Len(s1) ELSE known
        s2 == [s1 EXCEPT ![i].campaigns = @ + 1]
        w == CampaignWindow(metrics, campaign.campaign_id)
    IN  [s2 EXCEPT ![i].avgROI = Frac(SumOver(w, "roi"), Len(w)),
                   ![i].avgEngagement = Frac(SumOver(w, "engagement_rate"), Len(w)),
                   ![i].totalReach = @ + SumOver(w, "reach")]

\* one turn of the forEach in getBrandPerformance
BrandStep(stats, campaign, metrics) ==
    LET known == IndexOf(stats, "brand", campaign.brand)
        s1 == IF known = 0
              THEN Append(stats, [brand |-> campaign.brand, campaigns |-> 0,
                                  avgROI |-> Zero, avgEngagement |-> Zero,
                                  totalReach |-> 0])
              ELSE stats
        i == IF known = 0 THEN Len(s1) ELSE known
        s2 == [s1 EXCEPT ![i].campaigns = @ + 1]
        w == CampaignWindow(metrics, campaign.campaign_id)
    IN  IF Len(w) > 0
        THEN [s2 EXCEPT ![i].avgROI = Frac(SumOver(w, "roi"), Len(w)),
                        ![i].avgEngagement = Frac(SumOver(w, "engagement_rate"), Len(w)),
                        ![i].totalReach = @ + SumOver(w, "reach")]
        ELSE s2

RECURSIVE BrandFold(_, _, _)
BrandFold(campaigns, n, metrics) ==
    IF n = 0 THEN <<>>
    ELSE BrandStep(BrandFold(campaigns, n - 1, metrics), campaigns[n], metrics)

getBrandPerformance(cache) ==
    IF ~cache.campaigns.present \/ ~cache.metrics.present THEN <<>>
    ELSE BrandFold(cache.campaigns.value, Len(cache.campaigns.value),
                   cache.metrics.value)

LatestStep_LastOfTies(latest, row, keyField, timeField) ==
    LET known == IndexOf(latest, keyField, row[keyField])
    IN  IF known = 0 THEN Append(latest, row)
        ELSE IF GetTime(row[timeField]) >= GetTime(latest[known][timeField])
             THEN [latest EXCEPT ![known] = row]
             ELSE latest

\* one turn of the forEach in getSensorStatus / getModelPerformance: keep,
\* per key, the row with the later time; a key keeps the place of its first row
LatestStep(latest, row, keyField, timeField) ==
    LET known == IndexOf(latest, keyField, row[keyField])
    IN  IF known = 0 THEN Append(latest, row)
        ELSE IF GetTime(row[timeField]) > GetTime(latest[known][timeField])
             THEN [latest EXCEPT ![known] = row]
             ELSE latest

RECURSIVE LatestFold(_, _, _, _)
LatestFold(rows, n, keyField, timeField) ==
    IF n = 0 THEN <<>>
    ELSE LatestStep(LatestFold(rows, n - 1, keyField, timeField), rows[n],
                    keyField, timeField)

\* String.prototype.replace(from, to) with a string pattern: the first
\* occurrence only
RECURSIVE ReplaceFirst(_, _, _)
ReplaceFirst(str, from, to) ==
    IF str = <<>> THEN <<>>
    ELSE IF str[1] = from THEN <<to>> \o Tail(str)
         ELSE <<str[1]>> \o ReplaceFirst(Tail(str), from, to)

UpperChar(c) ==
    CASE c = "a" -> "A" [] c = "b" -> "B" [] c = "c" -> "C" [] OTHER -> c

ToUpperCase(str) == [i \in 1..Len(str) |-> UpperChar(str[i])]

\* Math.random() > 0.5 ? '+' : '-' + (Math.random() * 10).toFixed(1) + '%'
\* A trend text is its sign, its amount in tenths (none for a bare sign) and
\* its suffix.
Trend(r1, r2) ==
    IF r1 > 50 THEN [sign |-> "+", amount |-> <<>>, suffix |-> ""]
    ELSE [sign |-> "-", amount |-> <<ToFixed(r2 * 10, 100, 1)>>, suffix |-> "%"]

getSensorStatus(cache, rnd) ==
    IF ~cache.sensors.present THEN <<>>
    ELSE LET latest == LatestFold(cache.sensors.value, Len(cache.sensors.value),
                                  "sensor_type", "timestamp")
         IN  [i \in 1..Len(latest) |->
                [name |-> ToUpperCase(ReplaceFirst(latest[i].sensor_type, "_", " ")),
                 value |-> latest[i].value,
                 status |-> latest[i].status,
                 timestamp |-> latest[i].timestamp,
                 trend |-> Trend(rnd[2 * i - 1], rnd[2 * i])]]

getModelPerformance_PerModelId(cache) ==
    IF ~cache.models.present THEN <<>>
    ELSE LatestFold(cache.models.value, Len(cache.models.value),
                    "model_id", "date")

getModelPerformance(cache) ==
    IF ~cache.models.present THEN <<>>
    ELSE LatestFold(cache.models.value, Len(cache.models.value),
                    "model_type", "date")

\* one turn of the forEach in getPerformanceTrends
DailyStep(daily, metric) ==
    LET dateKey == DatePart(metric.date)
        known == IndexOf(daily, "date", dateKey)
        d1 == IF known = 0
              THEN Append(daily, [date |-> dateKey, avgROI |-> 0,
                                  avgEngagement |-> 0, totalReach |-> 0,
                                  count |-> 0])
              ELSE daily
        i == IF known = 0 THEN Len(d1) ELSE known
    IN  [d1 EXCEPT ![i].avgROI = @ + metric.roi,
                   ![i].avgEngagement = @ + metric.engagement_rate,
                   ![i].totalReach = @ + metric.reach,
                   ![i].count = @ + 1]

RECURSIVE DailyFold(_, _)
DailyFold(rows, n) ==
    IF n = 0 THEN <<>> ELSE DailyStep(DailyFold(rows, n - 1), rows[n])

getPerformanceTrends_Unsorted(cache, days, now) ==
    IF ~cache.metrics.present THEN <<>>
    ELSE LET cutoff == GetTime(now) - days * TicksPerDay
             recent == SelectSeq(cache.metrics.value,
                              LAMBDA m : GetTime(m.date) >= cutoff)
             daily == DailyFold(recent, Len(recent))
         IN  [i \in 1..Len(daily) |->
                [date |-> daily[i].date,
                 avgROI |-> ToFixed(daily[i].avgROI, daily[i].count, 2),
                 avgEngagement |-> ToFixed(daily[i].avgEngagement, daily[i].count, 2),
                 totalReach |-> daily[i].totalReach]]

getPerformanceTrends_NoCutoff(cache, days, now) ==
    IF ~cache.metrics.present THEN <<>>
    ELSE LET recent == cache.metrics.value
             daily == DailyFold(recent, Len(recent))
             out == [i \in 1..Len(daily) |->
                       [date |-> daily[i].date,
                        avgROI |-> ToFixed(daily[i].avgROI, daily[i].count, 2),
                        avgEngagement |-> ToFixed(daily[i].avgEngagement, daily[i].count, 2),
                        totalReach |-> daily[i].totalReach]]
         IN  SortByKey(out, [i \in 1..Len(out) |-> GetTime(out[i].date)])

getPerformanceTrends(cache, days, now) ==
    IF ~cache.metrics.present THEN <<>>
    ELSE LET cutoff == GetTime(now) - days * TicksPerDay
             recent == SelectSeq(cache.metrics.value,
                              LAMBDA m : GetTime(m.date) >= cutoff)
             daily == DailyFold(recent, Len(recent))
             out == [i \in 1..Len(daily) |->
                       [date |-> daily[i].date,
                        avgROI |-> ToFixed(daily[i].avgROI, daily[i].count, 2),
                        avgEngagement |-> ToFixed(daily[i].avgEngagement, daily[i].count, 2),
                        totalReach |-> daily[i].totalReach]]
         IN  SortByKey(out, [i \in 1..Len(out) |-> GetTime(out[i].date)])

PipelineHealth_RoundsDown(sensorStatus) ==
    IF Len(sensorStatus) > 0
    THEN (Len(SelectSeq(sensorStatus, LAMBDA s : s.status = "OK")) * 100)
            \div Len(sensorStatus)
    ELSE 100

\* const pipelineHealth = sensorStatus.length > 0 ? Math.round(...) : 100
PipelineHealth_ZeroWhenEmpty(sensorStatus) ==
    IF Len(sensorStatus) > 0
    THEN RoundDiv(Len(SelectSeq(sensorStatus, LAMBDA s : s.status = "OK")) * 100,
                  Len(sensorStatus))
    ELSE 0

PipelineHealth(sensorStatus) ==
    IF Len(sensorStatus) > 0
    THEN RoundDiv(Len(SelectSeq(sensorStatus, LAMBDA s : s.status = "OK")) * 100,
                  Len(sensorStatus))
    ELSE 100

getDashboardSummary_AllRows(cache, now, rnd) ==
    LET campaigns == OrEmpty(cache.campaigns)
        metrics == OrEmpty(cache.metrics)
        assets == OrEmpty(cache.assets)
        sensors == OrEmpty(cache.sensors)
        activeCampaigns == getActiveCampaigns(cache, now)
        recentMetrics == metrics
        n == Len(recentMetrics)
        sensorStatus == getSensorStatus(cache, rnd)
        rest == Drop(rnd, 2 * Len(sensorStatus))
    IN  [totalCampaigns |-> Len(campaigns),
         activeCampaigns |-> Len(activeCampaigns),
         avgROI |-> IF n > 0 THEN ToFixed(SumOver(recentMetrics, "roi"), n, 1) ELSE 0,
         avgEngagement |->
             IF n > 0 THEN ToFixed(SumOver(recentMetrics, "engagement_rate"), n, 1)
             ELSE 0,
         pipelineHealth |-> PipelineHealth(sensorStatus),
         dataFreshness |-> RoundDiv(rest[1] * 5, 100) + 95,
         modelAccuracy |-> RoundDiv(rest[2] * 10, 100) + 85,
         systemLatency |-> RoundDiv(rest[3] * 100, 100) + 100,
         totalRecords |-> Len(campaigns) + Len(metrics) + Len(assets) + Len(sensors)]

getDashboardSummary(cache, now, rnd) ==
    LET campaigns == OrEmpty(cache.campaigns)
        metrics == OrEmpty(cache.metrics)
        assets == OrEmpty(cache.assets)
        sensors == OrEmpty(cache.sensors)
        activeCampaigns == getActiveCampaigns(cache, now)
        recentMetrics == Slice(metrics, 0 - RecentRows, Len(metrics))
        n == Len(recentMetrics)
        sensorStatus == getSensorStatus(cache, rnd)
        rest == Drop(rnd, 2 * Len(sensorStatus))
    IN  [totalCampaigns |-> Len(campaigns),
         activeCampaigns |-> Len(activeCampaigns),
         avgROI |-> IF n > 0 THEN ToFixed(SumOver(recentMetrics, "roi"), n, 1) ELSE 0,
         avgEngagement |->
             IF n > 0 THEN ToFixed(SumOver(recentMetrics, "engagement_rate"), n, 1)
             ELSE 0,
         pipelineHealth |-> PipelineHealth(sensorStatus),
         dataFreshness |-> RoundDiv(rest[1] * 5, 100) + 95,
         modelAccuracy |-> RoundDiv(rest[2] * 10, 100) + 85,
         systemLatency |-> RoundDiv(rest[3] * 100, 100) + 100,
         totalRecords |-> Len(campaigns) + Len(metrics) + Len(assets) + Len(sensors)]

---------------------------------------------------------------------------
(* What the six resources under /data/ can hold.  A response body is one   *)
(* of these datasets; which one a call receives is decided when its        *)
(* bodies are decoded.                                                     *)

Campaign(id, brand, status, from, to, created) ==
    [campaign_id |-> id, brand |-> brand, status |-> status,
     start_date |-> from, end_date |-> to, created_at |-> created]

Metric(id, campaign, date, roi, engagement, reach) ==
    [metric_id |-> id, campaign_id |-> campaign, date |-> date, roi |-> roi,
     engagement_rate |-> engagement, reach |-> reach]

Sensor(id, type, ts, value, status) ==
    [sensor_id |-> id, sensor_type |-> type, timestamp |-> ts, value |-> value,
     status |-> status]

Model(id, type, date, accuracy) ==
    [model_id |-> id, model_type |-> type, date |-> date, accuracy |-> accuracy]

DatasetIds == {1, 2}

Dataset(d) ==
    IF d = 1
    THEN [campaigns |->
            << Campaign("c1", "Nike", "Active", Date(1, 0), Date(2, 0), Date(1, 0)),
               Campaign("c2", "Nike", "Paused", Date(1, 0), Date(3, 0), Date(2, 0)) >>,
          metrics |->
            << Metric("m1", "c1", Date(2, 1), 3, 4, 100),
               Metric("m2", "c1", Date(1, 1), 5, 7, 200) >>,
          assets |-> << [asset_id |-> "a1", campaign_id |-> "c1"] >>,
          sensors |->
            << Sensor("s1", <<"a", "_", "b">>, Date(1, 0), 95, "OK"),
               Sensor("s2", <<"a", "_", "b">>, Date(2, 0), 40, "FAIL") >>,
          models |-> << Model("p1", "ces", Date(1, 0), 87) >>,
          summary |-> [total_campaigns |-> 2]]
    ELSE [campaigns |->
            << Campaign("c3", "Adidas", "Active", Date(1, 0), Date(3, 1), Date(3, 0)) >>,
          metrics |-> <<>>,
          assets |-> <<>>,
          sensors |-> <<>>,
          models |-> <<>>,
          summary |-> [total_campaigns |-> 1]]

---------------------------------------------------------------------------
(* loadRealDataset().  A call is at one of                                 *)
(*   "idle"      not made yet                                              *)
(*   "fetching"  awaiting Promise.all of the six fetch() promises          *)
(*   "decoding"  awaiting Promise.all of the six json() promises           *)
(*   "parsed"    both joins fulfilled, the continuation not yet run        *)
(*   "returned"  its promise settled: result is what it settled to         *)
(*   "finished"  the fetchData() that awaited it has run to its end        *)
(* error is the stage whose join rejected ("none", "fetch", "json"); data  *)
(* is the dataset the decoded bodies hold; seq is the position of its      *)
(* settling among all the calls that have settled (0: not settled).        *)

IdleCall == [pc |-> "idle", error |-> "none", data |-> 0, result |-> "pending",
             seq |-> 0]

Started == {l \in CallIds : calls[l].pc # "idle"}
NextCall == Cardinality(Started) + 1
SettledCount == Cardinality({l \in CallIds : calls[l].seq > 0})

\* the catch block: console.warn, return null
Catch_Rethrows(c, stage) ==
    [c EXCEPT !.pc = "returned", !.error = stage, !.result = "rejected",
              !.seq = SettledCount + 1]

Catch(c, stage) ==
    [c EXCEPT !.pc = "returned", !.error = stage, !.result = "null",
              !.seq = SettledCount + 1]

\* what the catch block leaves in the cache
CacheAfterCatch_Clears(cache) == EmptyCache

CacheAfterCatch(cache) == cache

\* dataCache = { campaigns, metrics, assets, sensors, models, summary }
CachedDataset_KeepsSummary(cache, l, d) ==
    [r \in Resources |->
        IF r = "summary" THEN cache[r] ELSE Some(l, Dataset(d)[r])]

CachedDataset_FirstWins(cache, l, d) ==
    [r \in Resources |->
        IF cache[r].present THEN cache[r] ELSE Some(l, Dataset(d)[r])]

CachedDataset(cache, l, d) == [r \in Resources |-> Some(l, Dataset(d)[r])]

\* the call itself: the six fetches are issued
StartLoad(l) ==
    /\ l \in CallIds
    /\ l = NextCall
    /\ calls' = [calls EXCEPT ![l].pc = "fetching"]

\* all six fetch() promises fulfilled: the six json() decodes are issued
FetchesFulfilled(l) ==
    /\ calls[l].pc = "fetching"
    /\ calls' = [calls EXCEPT ![l].pc = "decoding"]
    /\ UNCHANGED <<dataCache, lastQuery, mounted, interval, loading,
                   dashboardData, sensorMetrics>>
    /\ UNCHANGED otherVars

\* the fetch of resource r rejects: the join rejects, the catch block runs
FetchRejected(l, r) ==
    /\ calls[l].pc = "fetching"
    /\ r \in Resources
    /\ calls' = [calls EXCEPT ![l] = Catch(@, "fetch")]
    /\ dataCache' = CacheAfterCatch(dataCache)
    /\ UNCHANGED <<lastQuery, mounted, interval, loading, dashboardData,
                   sensorMetrics>>
    /\ UNCHANGED otherVars

\* all six json() promises fulfilled, with the bodies of dataset d
DecodesFulfilled(l, d) ==
    /\ calls[l].pc = "decoding"
    /\ calls' = [calls EXCEPT ![l].pc = "parsed", ![l].data = d]
    /\ UNCHANGED <<dataCache, lastQuery, mounted, interval, loading,
                   dashboardData, sensorMetrics>>
    /\ UNCHANGED otherVars

\* the body of resource r is not JSON: the join rejects, the catch block runs
DecodeRejected(l, r) ==
    /\ calls[l].pc = "decoding"
    /\ r \in Resources
    /\ calls' = [calls EXCEPT ![l] = Catch(@, "json")]
    /\ dataCache' = CacheAfterCatch(dataCache)
    /\ UNCHANGED <<lastQuery, mounted, interval, loading, dashboardData,
                   sensorMetrics>>
    /\ UNCHANGED otherVars

\* the continuation after the second join: the cache is assigned and returned
CacheWrite(l) ==
    /\ calls[l].pc = "parsed"
    /\ dataCache' = CachedDataset(dataCache, l, calls[l].data)
    /\ calls' = [calls EXCEPT ![l].pc = "returned", ![l].result = "dataset",
                              ![l].seq = SettledCount + 1]
    /\ UNCHANGED <<lastQuery, mounted, interval, loading, dashboardData,
                   sensorMetrics>>
    /\ UNCHANGED otherVars

LoadStep ==
    \E l \in CallIds :
        \/ FetchesFulfilled(l)
        \/ \E r \in Resources : FetchRejected(l, r)
        \/ \E d \in DatasetIds : DecodesFulfilled(l, d)
        \/ \E r \in Resources : DecodeRejected(l, r)
        \/ CacheWrite(l)

---------------------------------------------------------------------------
(* mockData.ts: the wrappers the Dashboard calls *)

Text(t) == <<t>>

FallbackDashboardMetrics ==
    [totalCampaigns |-> 500, activeCampaigns |-> 127, avgROI |-> 42,
     avgEngagement |-> 78, pipelineHealth |-> 95, dataFreshness |-> 98,
     modelAccuracy |-> 87, systemLatency |-> 145]

FallbackSensor(name, value, sign, amount, suffix) ==
    [name |-> Text(name), value |-> value, status |-> "OK",
     trend |-> [sign |-> sign, amount |-> <<amount>>, suffix |-> suffix]]

FallbackSensors ==
    << FallbackSensor("Data Freshness", 98, "+", 20, "%"),
       FallbackSensor("Model Accuracy", 87, "+", 10, "%"),
       FallbackSensor("API Latency", 145, "-", 50, "ms"),
       FallbackSensor("Data Quality", 96, "+", 30, "%"),
       FallbackSensor("Throughput", 1150, "+", 80, "%") >>

Alerts ==
    << [id |-> 1, message |-> "High latency detected in EU region",
        severity |-> "warning"],
       [id |-> 2, message |-> "Model retrained successfully",
        severity |-> "info"] >>

\* what loadFullDataset() resolves to, given what loadRealDataset() resolved
\* to: the real data, or the mock structure
loadFullDataset(realData) == IF realData = "dataset" THEN "realData" ELSE "mockData"

\* try { return getDashboardSummary() } catch { return the fallback }:
\* getDashboardSummary throws nothing on collections that are arrays, so the
\* catch block is never entered
getDashboardMetrics(cache, now, rnd) == getDashboardSummary(cache, now, rnd)

\* the Math.random() draws getDashboardSummary has consumed
SummaryDraws(cache) == 2 * Len(getSensorStatus(cache, [i \in 1..StreamLen |-> 0])) + 3

getSensorMetrics(cache, rnd) ==
    LET sensors == getSensorStatus(cache, rnd)
    IN  [sensors |-> IF Len(sensors) > 0 THEN sensors ELSE FallbackSensors,
         alerts |-> Alerts]

---------------------------------------------------------------------------
(* App.tsx: the Dashboard component *)

Null == [isNull |-> TRUE]
Val(v) == [isNull |-> FALSE, value |-> v]

\* if (loading || !dashboardData || !sensorMetrics) return <the spinner>
ShowsLoadingIndicator ==
    loading \/ dashboardData.isNull \/ sensorMetrics.isNull

\* finally { setLoading(false) }
LoadingAfterFetch_Unchanged == loading

LoadingAfterFetch == FALSE

\* return () => clearInterval(interval)
IntervalAfterUnmount_StillArmed == interval

IntervalAfterUnmount == FALSE

\* fetchData() up to its await: loadFullDataset() calls loadRealDataset()
FetchDataStart == StartLoad(NextCall)

\* the component mounts and its effect runs: fetchData(), then setInterval
Mount ==
    /\ mounted = "no"
    /\ mounted' = "yes"
    /\ FetchDataStart
    /\ interval' = TRUE
    /\ UNCHANGED <<dataCache, lastQuery, loading, dashboardData, sensorMetrics>>
    /\ UNCHANGED otherVars

\* the interval timer fires: fetchData()
IntervalTick ==
    /\ interval
    /\ FetchDataStart
    /\ UNCHANGED <<dataCache, lastQuery, mounted, interval, loading,
                   dashboardData, sensorMetrics>>
    /\ UNCHANGED otherVars

\* fetchData() after its await: the queries run and the state is set; a
\* state setter of a component that has unmounted does nothing
FetchDataResume(l, now, rnd) ==
    /\ calls[l].pc = "returned"
    /\ calls' = [calls EXCEPT ![l].pc = "finished"]
    /\ LET fullDataset == loadFullDataset(calls[l].result)
           dashboard == getDashboardMetrics(dataCache, now, rnd)
           sensors == getSensorMetrics(dataCache, Drop(rnd, SummaryDraws(dataCache)))
       IN  IF mounted = "yes"
           THEN /\ dashboardData' = Val(dashboard)
                /\ sensorMetrics' = Val(sensors)
                /\ loading' = LoadingAfterFetch
           ELSE UNCHANGED <<dashboardData, sensorMetrics, loading>>
    /\ UNCHANGED <<dataCache, lastQuery, mounted, interval>>
    /\ UNCHANGED otherVars

\* the component unmounts: the effect's cleanup runs
Unmount ==
    /\ mounted = "yes"
    /\ mounted' = "gone"
    /\ interval' = IntervalAfterUnmount
    /\ UNCHANGED <<dataCache, calls, lastQuery, loading, dashboardData,
                   sensorMetrics>>
    /\ UNCHANGED otherVars

---------------------------------------------------------------------------
(* The retrain function (supabase edge function).  Each request is served  *)
(* by its own run of the handler; the runs interleave at their awaits.  A  *)
(* request is at one of                                                    *)
(*   "none"       not received yet                                         *)
(*   "inserting"  awaiting the insert into retraining_jobs                 *)
(*   "inserted"   the row is in the table, the reply is on its way         *)
(*   "calling"    awaiting the POST to the webhook                         *)
(*   "responded"  its Response is returned: status and body                *)
(* insert and webhook record how each await ended ("none": not reached).   *)
(* A job row is [id, status, by]: by is the request whose insert made it.  *)

MaxRequests == 2

RequestIds == 1..MaxRequests

Methods == {"POST", "OPTIONS"}

NoBody == [kind |-> "none", jobId |-> 0]
\* new Response('ok', ...)
OkBody == [kind |-> "ok", jobId |-> 0]
\* JSON.stringify({ jobId: job.id })
JobBody(id) == [kind |-> "jobId", jobId |-> id]
\* JSON.stringify({ error: error.message })
ErrorBody == [kind |-> "error", jobId |-> 0]

NoRequest ==
    [pc |-> "none", method |-> "none", insert |-> "none", webhook |-> "none",
     job |-> 0, status |-> 0, body |-> NoBody]

Respond(req, status, body) ==
    [req EXCEPT !.pc = "responded", !.status = status, !.body = body]

\* the catch block
Caught(req) == Respond(req, 400, ErrorBody)

\* { status: 'pending', started_at: ... }, with the id the table gives it
NewJob(table, r) == [id |-> Len(table) + 1, status |-> "pending", by |-> r]

JobBy(table, r) == CHOOSE k \in 1..Len(table) : table[k].by = r

WebhookCallsAfterJobError_StillCalls(sent, r) ==
    Append(sent, [jobId |-> 0, by |-> r])

\* if (jobError) throw jobError: the fetch below it is not reached
WebhookCallsAfterJobError(sent, r) == sent

JobsAfterWebhookFailure_MarksFailed(table, id) ==
    [k \in 1..Len(table) |->
        IF table[k].id = id THEN [table[k] EXCEPT !.status = "failed"]
        ELSE table[k]]

\* the catch block only builds a Response: it leaves the table alone
JobsAfterWebhookFailure(table, id) == table

NextRequest == Cardinality({r \in RequestIds : requests[r].pc # "none"}) + 1

\* a request arrives: the handler runs up to its first await.  An OPTIONS
\* request is answered at once; createClient may throw (clientOk FALSE)
Receive(r, method, clientOk) ==
    /\ r \in RequestIds
    /\ r = NextRequest
    /\ LET req == [NoRequest EXCEPT !.method = method]
       IN  requests' =
              [requests EXCEPT ![r] =
                  IF method = "OPTIONS" THEN Respond(req, 200, OkBody)
                  ELSE IF ~clientOk THEN Caught(req)
                  ELSE [req EXCEPT !.pc = "inserting"]]
    /\ UNCHANGED <<jobs, webhookCalls>>
    /\ UNCHANGED <<aggregatorVars, askVars, uploadVars>>

\* the database inserts the row
InsertCommitted(r) ==
    /\ requests[r].pc = "inserting"
    /\ jobs' = Append(jobs, NewJob(jobs, r))
    /\ requests' = [requests EXCEPT ![r].pc = "inserted"]
    /\ UNCHANGED webhookCalls
    /\ UNCHANGED <<aggregatorVars, askVars, uploadVars>>

\* the insert is refused, or its reply does not arrive: jobError is set
InsertFailed(r) ==
    /\ requests[r].pc \in {"inserting", "inserted"}
    /\ requests' = [requests EXCEPT ![r] = Caught([@ EXCEPT !.insert = "error"])]
    /\ webhookCalls' = WebhookCallsAfterJobError(webhookCalls, r)
    /\ UNCHANGED jobs
    /\ UNCHANGED <<aggregatorVars, askVars, uploadVars>>

\* the insert returns the row: the webhook is called with its id
InsertReturned(r) ==
    /\ requests[r].pc = "inserted"
    /\ LET id == jobs[JobBy(jobs, r)].id
       IN  /\ requests' = [requests EXCEPT ![r].pc = "calling",
                                           ![r].insert = "ok", ![r].job = id]
           /\ webhookCalls' = Append(webhookCalls, [jobId |-> id, by |-> r])
    /\ UNCHANGED jobs
    /\ UNCHANGED <<aggregatorVars, askVars, uploadVars>>

\* the webhook answers: response.ok or not
WebhookFulfilled(r, ok) ==
    /\ requests[r].pc = "calling"
    /\ IF ok
       THEN /\ requests' = [requests EXCEPT ![r] =
                              Respond([@ EXCEPT !.webhook = "ok"], 200,
                                      JobBody(requests[r].job))]
            /\ UNCHANGED jobs
       ELSE /\ requests' = [requests EXCEPT ![r] =
                              Caught([@ EXCEPT !.webhook = "notOk"])]
            /\ jobs' = JobsAfterWebhookFailure(jobs, requests[r].job)
    /\ UNCHANGED webhookCalls
    /\ UNCHANGED <<aggregatorVars, askVars, uploadVars>>

\* the fetch of the webhook rejects (network error)
WebhookRejected(r) ==
    /\ requests[r].pc = "calling"
    /\ requests' = [requests EXCEPT ![r] = Caught([@ EXCEPT !.webhook = "network"])]
    /\ jobs' = JobsAfterWebhookFailure(jobs, requests[r].job)
    /\ UNCHANGED webhookCalls
    /\ UNCHANGED <<aggregatorVars, askVars, uploadVars>>

RetrainIdle ==
    /\ requests = [r \in RequestIds |-> NoRequest]
    /\ jobs = <<>>
    /\ webhookCalls = <<>>

---------------------------------------------------------------------------
(* The collaborator API: apiClient.fetch and the AskCes form.  A thrown    *)
(* value is [isError, message]; the state `error` of AskCes (string or     *)
(* null) is <<>> for null and <<message>> for a string, `response` alike.  *)
(* sent counts the requests issued, submits and calls the user's or the    *)
(* caller's actions, outcome how the last request ended.                   *)

MaxSubmits == 2

Outcomes == {"ok", "notOk", "network"}

\* new Error(message)
Error(message) == [isError |-> TRUE, message |-> message]

\* what fetch rejects with on a network error: a TypeError
NetworkError == Error("Failed to fetch")

\* what response.json() rejects with: a SyntaxError
JsonError == Error("Unexpected token")

AskIdle ==
    [pc |-> "idle", loading |-> FALSE, error |-> <<>>, response |-> <<>>,
     sent |-> 0, submits |-> 0, outcome |-> "none"]

ApiIdle ==
    [pc |-> "idle", result |-> "none", error |-> Error(""), token |-> "none",
     sent |-> 0, calls |-> 0, outcome |-> "none"]

ErrorMessage_Silent(err) == ""

\* err instanceof Error ? err.message : "An error occurred"
ErrorMessage(err) == IF err.isError THEN err.message ELSE "An error occurred"

\* catch (err) { setError(...) } finally { setLoading(false) }
AskCaught(a, err, outcome) ==
    [a EXCEPT !.pc = "idle", !.error = <<ErrorMessage(err)>>,
              !.loading = FALSE, !.outcome = outcome]

\* the form is submitted: the button is disabled while loading
HandleSubmit ==
    /\ ~ask.loading
    /\ ask.submits < MaxSubmits
    /\ ask' = [ask EXCEPT !.pc = "fetching", !.loading = TRUE, !.error = <<>>,
                          !.sent = @ + 1, !.submits = @ + 1]
    /\ UNCHANGED api
    /\ UNCHANGED <<aggregatorVars, retrainVars, uploadVars>>

\* the fetch of /api/ask settles
AskResponse(outcome) ==
    /\ ask.pc = "fetching"
    /\ ask' = CASE outcome = "ok" -> [ask EXCEPT !.pc = "json"]
                [] outcome = "notOk" ->
                       AskCaught(ask, Error("Failed to get response"), outcome)
                [] OTHER -> AskCaught(ask, NetworkError, outcome)
    /\ UNCHANGED api
    /\ UNCHANGED <<aggregatorVars, retrainVars, uploadVars>>

\* res.json() settles
AskJson(parsed) ==
    /\ ask.pc = "json"
    /\ ask' = IF parsed
              THEN [ask EXCEPT !.pc = "idle", !.response = <<"data">>,
                               !.loading = FALSE, !.outcome = "ok"]
              ELSE AskCaught(ask, JsonError, "badJson")
    /\ UNCHANGED api
    /\ UNCHANGED <<aggregatorVars, retrainVars, uploadVars>>

\* throw: the promise of apiClient.fetch rejects
ApiRejected(a, err, outcome) ==
    [a EXCEPT !.pc = "settled", !.result = "rejected", !.error = err,
              !.outcome = outcome]

\* a caller calls apiClient.fetch: it awaits getAuthToken()
ApiFetch ==
    /\ api.pc \in {"idle", "settled"}
    /\ api.calls < MaxSubmits
    /\ api' = [api EXCEPT !.pc = "token", !.result = "none",
                          !.error = Error(""), !.calls = @ + 1]
    /\ UNCHANGED ask
    /\ UNCHANGED <<aggregatorVars, retrainVars, uploadVars>>

\* getAuthToken returns session?.access_token: the request is issued
ApiToken(hasSession) ==
    /\ api.pc = "token"
    /\ api' = [api EXCEPT !.pc = "fetching", !.sent = @ + 1,
                          !.token = IF hasSession THEN "jwt" ELSE "undefined"]
    /\ UNCHANGED ask
    /\ UNCHANGED <<aggregatorVars, retrainVars, uploadVars>>

\* the fetch settles: if (!response.ok) throw new Error(`API error: ...`)
ApiResponse(outcome) ==
    /\ api.pc = "fetching"
    /\ api' = CASE outcome = "ok" -> [api EXCEPT !.pc = "json"]
                [] outcome = "notOk" ->
                       ApiRejected(api, Error("API error: statusText"), outcome)
                [] OTHER -> ApiRejected(api, NetworkError, outcome)
    /\ UNCHANGED ask
    /\ UNCHANGED <<aggregatorVars, retrainVars, uploadVars>>

\* return response.json()
ApiJson(parsed) ==
    /\ api.pc = "json"
    /\ api' = IF parsed
              THEN [api EXCEPT !.pc = "settled", !.result = "fulfilled",
                               !.outcome = "ok"]
              ELSE ApiRejected(api, JsonError, "badJson")
    /\ UNCHANGED ask
    /\ UNCHANGED <<aggregatorVars, retrainVars, uploadVars>>

CollaboratorIdle ==
    /\ ask = AskIdle
    /\ api = ApiIdle

---------------------------------------------------------------------------
(* The DataUpload component.  files is the list of the component's state;  *)
(* a file is [id, status, progress].  timers[id] holds the interval that   *)
(* simulateUpload(id) starts and the timeout its callback schedules:       *)
(* "none" (not started), "running"/"pending", "cleared"/"fired".  Ids are  *)
(* unique (Date.now() and a random suffix): they are numbered in order.    *)

MaxFiles == 2

FileIds == 1..MaxFiles

ProgressStep == 10

ProgressFull == 100

NoTimer == [interval |-> "none", timeout |-> "none"]

\* the entry handleFiles makes for a file
NewFile(id) == [id |-> id, status |-> "uploading", progress |-> 0]

InList(list, id) == \E k \in 1..Len(list) : list[k].id = id

FileOf(list, id) == list[CHOOSE k \in 1..Len(list) : list[k].id = id]

Uploaded == Cardinality({id \in FileIds : timers[id].interval # "none"})

TickFile_Early(file) ==
    IF file.status = "uploading" /\ file.progress >= ProgressFull - ProgressStep
    THEN [file EXCEPT !.status = "processing"]
    ELSE IF file.progress < ProgressFull
    THEN [file EXCEPT !.progress = @ + ProgressStep]
    ELSE file

\* what the interval's callback returns for its own file
TickFile(file) ==
    IF file.progress < ProgressFull
    THEN [file EXCEPT !.progress = @ + ProgressStep]
    ELSE IF file.status = "uploading"
    THEN [file EXCEPT !.status = "processing"]
    ELSE file

\* removeFile only filters the list
TimersAfterRemove(t, id) == t

\* handleFiles with n files: they are appended and each gets its interval
HandleFiles(n) ==
    /\ n \in 1..(MaxFiles - Uploaded)
    /\ LET first == Uploaded + 1
           newFiles == [k \in 1..n |-> NewFile(first + k - 1)]
       IN  /\ files' = files \o newFiles
           /\ timers' = [id \in FileIds |->
                            IF id \in first..(first + n - 1)
                            THEN [timers[id] EXCEPT !.interval = "running"]
                            ELSE timers[id]]
    /\ UNCHANGED <<aggregatorVars, retrainVars, askVars>>

\* the interval of file id fires
UploadTick(id) ==
    /\ timers[id].interval = "running"
    /\ files' = [k \in 1..Len(files) |->
                    IF files[k].id = id THEN TickFile(files[k]) ELSE files[k]]
    /\ timers' =
          IF /\ InList(files, id)
             /\ FileOf(files, id).progress >= ProgressFull
             /\ FileOf(files, id).status = "processing"
          THEN [timers EXCEPT ![id] = [interval |-> "cleared", timeout |-> "pending"]]
          ELSE timers
    /\ UNCHANGED <<aggregatorVars, retrainVars, askVars>>

\* the timeout of file id fires
UploadTimeout(id) ==
    /\ timers[id].timeout = "pending"
    /\ files' = [k \in 1..Len(files) |->
                    IF files[k].id = id
                    THEN [files[k] EXCEPT !.status = "completed"]
                    ELSE files[k]]
    /\ timers' = [timers EXCEPT ![id].timeout = "fired"]
    /\ UNCHANGED <<aggregatorVars, retrainVars, askVars>>

\* removeFile(id), from the button of a listed file
RemoveFile(id) ==
    /\ InList(files, id)
    /\ files' = SelectSeq(files, LAMBDA file : file.id # id)
    /\ timers' = TimersAfterRemove(timers, id)
    /\ UNCHANGED <<aggregatorVars, retrainVars, askVars>>

UploadIdle ==
    /\ files = <<>>
    /\ timers = [id \in FileIds |-> NoTimer]

\* the components other than the aggregator and the dashboard, before use
OthersIdle == RetrainIdle /\ CollaboratorIdle /\ UploadIdle

---------------------------------------------------------------------------
(* The aggregator used directly: any caller may call loadRealDataset() and *)
(* the queries at any time.                                                *)

Limits == {1, DefaultLimit}
CampaignIds == {"c1", "c9"}
Nows == {Date(1, 1), Date(3, 0)}
DayCounts == {DefaultDays}

\* lastQuery.asked: how many calls had settled when the query ran
NoQuery == [op |-> "none", args |-> <<>>, result |-> <<>>, asked |-> 0]

LoadCall ==
    /\ StartLoad(NextCall)
    /\ UNCHANGED <<dataCache, lastQuery, mounted, interval, loading,
                   dashboardData, sensorMetrics>>
    /\ UNCHANGED otherVars

Answer(op, args, result) ==
    /\ lastQuery' = [op |-> op, args |-> args, result |-> result,
                     asked |-> SettledCount]
    /\ UNCHANGED <<calls, mounted, interval, loading, dashboardData, sensorMetrics>>
    /\ UNCHANGED otherVars

LatestCampaigns(limit) ==
    /\ Answer("getLatestCampaigns", <<limit>>, getLatestCampaigns(dataCache, limit))
    /\ dataCache' = CacheAfterLatestCampaigns(dataCache)

CampaignMetrics(id) ==
    /\ Answer("getCampaignMetrics", <<id>>, getCampaignMetrics(dataCache, id))
    /\ UNCHANGED dataCache

ActiveCampaigns(now) ==
    /\ Answer("getActiveCampaigns", <<now>>, getActiveCampaigns(dataCache, now))
    /\ UNCHANGED dataCache

BrandPerformance ==
    /\ Answer("getBrandPerformance", <<>>, getBrandPerformance(dataCache))
    /\ UNCHANGED dataCache

SensorStatus(rnd) ==
    /\ Answer("getSensorStatus", <<>>, getSensorStatus(dataCache, rnd))
    /\ UNCHANGED dataCache

ModelPerformance ==
    /\ Answer("getModelPerformance", <<>>, getModelPerformance(dataCache))
    /\ UNCHANGED dataCache

PerformanceTrends(days, now) ==
    /\ Answer("getPerformanceTrends", <<days, now>>, getPerformanceTrends(dataCache, days, now))
    /\ UNCHANGED dataCache

DashboardSummary(now, rnd) ==
    /\ Answer("getDashboardSummary", <<now>>, getDashboardSummary(dataCache, now, rnd))
    /\ UNCHANGED dataCache

Query ==
    \/ \E limit \in Limits : LatestCampaigns(limit)
    \/ \E id \in CampaignIds : CampaignMetrics(id)
    \/ \E now \in Nows : ActiveCampaigns(now)
    \/ BrandPerformance
    \/ \E rnd \in Streams : SensorStatus(rnd)
    \/ ModelPerformance
    \/ \E days \in DayCounts, now \in Nows : PerformanceTrends(days, now)
    \/ \E now \in Nows, rnd \in Streams : DashboardSummary(now, rnd)

Init ==
    /\ dataCache = EmptyCache
    /\ calls = [l \in CallIds |-> IdleCall]
    /\ lastQuery = NoQuery
    /\ mounted = "no"
    /\ interval = FALSE
    /\ loading = TRUE
    /\ dashboardData = Null
    /\ sensorMetrics = Null
    /\ OthersIdle

Next == LoadCall \/ LoadStep \/ Query

Spec == Init /\ [][Next]_vars

---------------------------------------------------------------------------
(* The Dashboard: the only caller is the component *)

DashNext ==
    \/ Mount
    \/ IntervalTick
    \/ LoadStep
    \/ \E l \in CallIds, now \in Nows, rnd \in Streams : FetchDataResume(l, now, rnd)
    \/ Unmount

DashSpec == Init /\ [][DashNext]_vars

---------------------------------------------------------------------------
(* The queries on generated collections: the cache starts as a load wrote  *)
(* it, with up to MaxRows campaigns whose creation times range over the    *)
(* instants of MaxDay days.                                                *)

Instants == {Date(d, t) : d \in Days, t \in 0..(TicksPerDay - 1)}

RowIds == <<"c1", "c2", "c3", "c4", "c5", "c6">>

\* the lists of n campaigns
CampaignLists(n) ==
    { [i \in 1..n |->
         Campaign(RowIds[i], "Nike", "Active", Date(1, 0), Date(MaxDay, 0),
                  created[i])] :
      created \in [1..n -> Instants] }

QueryLimits == (0 - 2)..(MaxRows + 1)

QueryInit ==
    /\ \E n \in 0..MaxRows : \E c \in CampaignLists(n) :
          dataCache = [CachedDataset(EmptyCache, 1, 2) EXCEPT !.campaigns.value = c]
    /\ calls = [l \in CallIds |->
                  IF l = 1
                  THEN [pc |-> "returned", error |-> "none", data |-> 2,
                        result |-> "dataset", seq |-> 1]
                  ELSE IdleCall]
    /\ lastQuery = NoQuery
    /\ mounted = "no"
    /\ interval = FALSE
    /\ loading = TRUE
    /\ dashboardData = Null
    /\ sensorMetrics = Null
    /\ OthersIdle

QueryNext == \E limit \in QueryLimits : LatestCampaigns(limit)

QuerySpec == QueryInit /\ [][QueryNext]_vars

---------------------------------------------------------------------------
(* Brand performance and campaign metrics on generated collections: up to  *)
(* MaxRows campaigns of two brands, and up to MaxMetrics metric rows, one  *)
(* per day, the first rows of campaign c1 and the rest of campaign c2,     *)
(* stored oldest first, newest first or rotated.                           *)

MaxMetrics == 8

\* a cache as one successful load wrote it, holding the given collections
LoadedCache(campaigns, metrics, sensors) ==
    [CachedDataset(EmptyCache, 1, 2) EXCEPT !.campaigns.value = campaigns,
                                            !.metrics.value = metrics,
                                            !.sensors.value = sensors]

\* the rest of the state once call 1 has returned its dataset
OneLoadReturned ==
    /\ calls = [l \in CallIds |->
                  IF l = 1
                  THEN [pc |-> "returned", error |-> "none", data |-> 2,
                        result |-> "dataset", seq |-> 1]
                  ELSE IdleCall]
    /\ lastQuery = NoQuery
    /\ mounted = "no"
    /\ interval = FALSE
    /\ loading = TRUE
    /\ dashboardData = Null
    /\ sensorMetrics = Null
    /\ OthersIdle

Brands == {"Nike", "Adidas"}

\* the lists of n campaigns
BrandCampaignLists(n) ==
    { [i \in 1..n |->
         Campaign(RowIds[i], brand[i], "Active", Date(1, 0), Date(MaxDay, 0),
                  Date(1, 0))] :
      brand \in [1..n -> Brands] }

RowOrders == {"oldestFirst", "newestFirst", "rotated"}

\* the day of row i of n under a storage order
DayOfRow(order, i, n) ==
    CASE order = "oldestFirst" -> i
      [] order = "newestFirst" -> n + 1 - i
      [] OTHER -> ((i + 1) % n) + 1

\* the lists of n metric rows
MetricLists(n) ==
    { [i \in 1..n |->
         Metric(i, IF i <= k THEN "c1" ELSE "c2", Date(DayOfRow(order, i, n), 0),
                IF i % 2 = 1 THEN 3 ELSE 5, i, 100 * i)] :
      k \in 0..n, order \in RowOrders }

MetricOwners == {"c1", "c2", "c9"}

BrandInit ==
    /\ \E n \in 0..MaxRows, k \in 0..MaxMetrics :
          \E c \in BrandCampaignLists(n), m \in MetricLists(k) :
             dataCache = LoadedCache(c, m, <<>>)
    /\ OneLoadReturned

BrandNext ==
    \/ BrandPerformance
    \/ \E id \in MetricOwners : CampaignMetrics(id)

BrandSpec == BrandInit /\ [][BrandNext]_vars

---------------------------------------------------------------------------
(* Active campaigns on generated collections: up to MaxScheduled campaigns *)
(* of either status, each starting and ending at the start of a day, asked *)
(* at every instant.                                                       *)

MaxScheduled == 2

Statuses == {"Active", "Paused"}

DayStarts == {Date(d, 0) : d \in Days}

\* the lists of n campaigns
ScheduledLists(n) ==
    { [i \in 1..n |->
         Campaign(RowIds[i], "Nike", status[i], from[i], to[i], Date(1, 0))] :
      status \in [1..n -> Statuses],
      from \in [1..n -> DayStarts],
      to \in [1..n -> DayStarts] }

ActiveInit ==
    /\ \E n \in 0..MaxScheduled : \E c \in ScheduledLists(n) :
          dataCache = LoadedCache(c, <<>>, <<>>)
    /\ OneLoadReturned

ActiveNext == \E now \in Instants : ActiveCampaigns(now)

ActiveSpec == ActiveInit /\ [][ActiveNext]_vars

---------------------------------------------------------------------------
(* Sensor status on generated collections: up to MaxRows readings of two   *)
(* sensor types, one with a single underscore and one with two, each       *)
(* reading OK or FAIL, taken at the start of any day, in any order; the    *)
(* value of a reading is its position in the collection.                   *)

SensorTypes == {<<"a", "_", "b">>, <<"a", "_", "b", "_", "c">>}

SensorStatuses == {"OK", "FAIL"}

\* the lists of n readings
SensorLists(n) ==
    { [i \in 1..n |-> Sensor(i, type[i], ts[i], i, status[i])] :
      type \in [1..n -> SensorTypes],
      ts \in [1..n -> DayStarts],
      status \in [1..n -> SensorStatuses] }

SensorInit ==
    /\ \E n \in 0..MaxRows : \E r \in SensorLists(n) :
          dataCache = LoadedCache(<<>>, <<>>, r)
    /\ OneLoadReturned

SensorNext == \E rnd \in Streams : SensorStatus(rnd)

SensorSpec == SensorInit /\ [][SensorNext]_vars

---------------------------------------------------------------------------
(* Performance trends on generated collections: up to MaxRows metric rows  *)
(* dated at any instant, in any order, asked for negative, zero and        *)
(* positive day counts late on the first day and on the last day.          *)

\* the lists of n metric rows
TrendMetricLists(n) ==
    { [i \in 1..n |->
         Metric(i, "c1", date[i], IF i = 1 THEN 3 ELSE 5, i, 100 * i)] :
      date \in [1..n -> Instants] }

TrendDays == {0 - 1, 0, 1, DefaultDays}

TrendNows ==
    {Date(1, TicksPerDay - 1), Date(MaxDay, 0), Date(MaxDay, TicksPerDay - 1)}

TrendInit ==
    /\ \E n \in 0..MaxRows : \E m \in TrendMetricLists(n) :
          dataCache = LoadedCache(<<>>, m, <<>>)
    /\ OneLoadReturned

TrendNext == \E days \in TrendDays, now \in TrendNows : PerformanceTrends(days, now)

TrendSpec == TrendInit /\ [][TrendNext]_vars

---------------------------------------------------------------------------
(* Performance trends of the same generated collections, asked for         *)
(* positive day counts at the end of the first day and of the last day.    *)

ReorderDays == {1, DefaultDays}

ReorderNows == {Date(1, TicksPerDay - 1), Date(MaxDay, TicksPerDay - 1)}

ReorderNext ==
    \E days \in ReorderDays, now \in ReorderNows : PerformanceTrends(days, now)

ReorderSpec == TrendInit /\ [][ReorderNext]_vars

---------------------------------------------------------------------------
(* The dashboard summary.  The cache is empty as at module load, or holds  *)
(* up to MaxRows sensor readings of three types, or holds metric rows: a   *)
(* few, or about RecentRows of them, up to ExtraRows fewer or more.  Up to *)
(* ExtraRows of the first metric rows carry a high ROI and engagement      *)
(* rate, the others a low one.                                             *)

ExtraRows == 2

SummarySensorTypes == SensorTypes \cup {<<"c">>}

SummaryTimes == {Date(1, 0), Date(MaxDay, 0)}

\* the lists of n readings
SummarySensorLists(n) ==
    { [i \in 1..n |-> Sensor(i, type[i], ts[i], i, status[i])] :
      type \in [1..n -> SummarySensorTypes],
      ts \in [1..n -> SummaryTimes],
      status \in [1..n -> SensorStatuses] }

SummaryLengths ==
    (0..ExtraRows) \cup ((RecentRows - ExtraRows)..(RecentRows + ExtraRows))

\* the lists of n metric rows
SummaryMetricLists(n) ==
    { [i \in 1..n |->
         Metric(i, "c1", Date(DayOfRow(order, i, n), 0),
                IF i <= high THEN 900 ELSE 4, IF i <= high THEN 500 ELSE 2, 100)] :
      high \in 0..ExtraRows, order \in RowOrders }

SummaryNows == {Date(1, 0)}

SummaryInit ==
    \/ Init
    \/ /\ \E n \in 0..MaxRows : \E r \in SummarySensorLists(n) :
             dataCache = LoadedCache(<<>>, <<>>, r)
       /\ OneLoadReturned
    \/ /\ \E n \in SummaryLengths : \E m \in SummaryMetricLists(n) :
             dataCache = LoadedCache(<<>>, m, <<>>)
       /\ OneLoadReturned

SummaryNext == \E now \in SummaryNows, rnd \in Streams : DashboardSummary(now, rnd)

SummarySpec == SummaryInit /\ [][SummaryNext]_vars

---------------------------------------------------------------------------
(* Model performance on generated collections: up to MaxRows rows of two   *)
(* model types, dated at the start of any day, in any order; the accuracy  *)
(* of a row is its position in the collection.                             *)

ModelTypes == {"ces", "ctr"}

\* the lists of n rows
ModelLists(n) ==
    { [i \in 1..n |-> Model(i, type[i], date[i], i)] :
      type \in [1..n -> ModelTypes],
      date \in [1..n -> DayStarts] }

ModelInit ==
    /\ \E n \in 0..MaxRows : \E r \in ModelLists(n) :
          dataCache = [LoadedCache(<<>>, <<>>, <<>>) EXCEPT !.models.value = r]
    /\ OneLoadReturned

ModelNext == ModelPerformance

ModelSpec == ModelInit /\ [][ModelNext]_vars

---------------------------------------------------------------------------
(* The two states of the aggregator *)

Unloaded == \A r \in Resources : ~dataCache[r].present
Loaded == \E r \in Resources : dataCache[r].present

Succeeded == {l \in CallIds : calls[l].result = "dataset"}
Failed == {l \in CallIds : calls[l].result = "null"}
Settled == {l \in CallIds : calls[l].pc \in {"returned", "finished"}}

\* the successful call that settled last
LastWriter == CHOOSE l \in Succeeded : \A k \in Succeeded : calls[k].seq <= calls[l].seq

Range(s) == {s[i] : i \in 1..Len(s)}
Occurrences(s, x) == Cardinality({i \in 1..Len(s) : s[i] = x})
SameRows(a, b) ==
    /\ Len(a) = Len(b)
    /\ \A x \in Range(a) \cup Range(b) : Occurrences(a, x) = Occurrences(b, x)

\* the cache holds exactly the six collections that call l decoded (the
\* campaigns possibly reordered by the sort in getLatestCampaigns)
HoldsDatasetOf(l) ==
    \A r \in Resources :
        /\ dataCache[r].present
        /\ dataCache[r].batch = l
        /\ IF r = "campaigns"
           THEN SameRows(dataCache[r].value, Dataset(calls[l].data)[r])
           ELSE dataCache[r].value = Dataset(calls[l].data)[r]

---------------------------------------------------------------------------
(* C1: a step of a loadRealDataset() call that does not end in the         *)
(* successful return (its start, a fulfilled join, a rejected fetch or     *)
(* decode with the catch block) leaves the cache exactly as it was, and no *)
(* step takes the aggregator from Loaded back to Unloaded.                 *)
C1_FailedLoadWritesNothing ==
    [][ /\ \A l \in CallIds :
              (calls'[l] # calls[l] /\ calls'[l].result # "dataset")
                  => dataCache' = dataCache
        /\ Loaded => Loaded' ]_vars

\* a call failed after another had succeeded, and the cache still holds the
\* earlier call's data
C1_Witness ==
    \E l, k \in CallIds :
        /\ calls[l].result = "null"
        /\ calls[k].result = "dataset"
        /\ calls[l].seq > calls[k].seq
        /\ HoldsDatasetOf(k)

(* C2: loadRealDataset() never rejects: a settled call has resolved to     *)
(* null exactly when one of its fetches or decodes failed and to the       *)
(* dataset otherwise, and at the step where it resolves to the dataset the *)
(* cache holds exactly the six collections it decoded.                     *)
C2_LoadNeverRaises ==
    /\ [](\A l \in CallIds :
            /\ calls[l].result \in {"pending", "null", "dataset"}
            /\ l \in Settled =>
                  /\ calls[l].error # "none" => calls[l].result = "null"
                  /\ calls[l].error = "none" => calls[l].result = "dataset")
    /\ [][ \A l \in CallIds :
              (calls[l].result = "pending" /\ calls'[l].result = "dataset")
                  => \A r \in Resources :
                        dataCache'[r] = Some(l, Dataset(calls[l].data)[r]) ]_vars

\* one call failed in a decode and resolved to null, another resolved to
\* the dataset
C2_Witness ==
    \E l, k \in CallIds :
        /\ calls[l].error = "json" /\ calls[l].result = "null"
        /\ calls[k].error = "none" /\ calls[k].result = "dataset"

(* C3: in every state (a query can run in any of them) the cache is either *)
(* completely empty or holds all six collections, all written by one and   *)
(* the same loadRealDataset() call.                                        *)
C3_CacheWholeOrEmpty ==
    \/ \A r \in Resources : ~dataCache[r].present
    \/ \E l \in CallIds :
          \A r \in Resources : dataCache[r].present /\ dataCache[r].batch = l

\* a query read the cache that the second call wrote while the first call,
\* started earlier, was still waiting to write its own
C3_Witness ==
    /\ calls[1].pc = "parsed"
    /\ calls[2].result = "dataset"
    /\ dataCache["campaigns"].batch = 2
    /\ lastQuery.op = "getDashboardSummary"
    /\ lastQuery.asked = 1

(* C4: once some call has succeeded, the cache holds exactly the six       *)
(* collections of the successful call that wrote last, whichever call was  *)
(* started first, and nothing of any other call.                           *)
C4_LastWriteWins ==
    Succeeded # {} => HoldsDatasetOf(LastWriter)

\* two overlapping calls with different data both succeeded, and the one
\* started first wrote last
C4_Witness ==
    /\ calls[1].result = "dataset"
    /\ calls[2].result = "dataset"
    /\ calls[1].data # calls[2].data
    /\ calls[1].seq > calls[2].seq
    /\ HoldsDatasetOf(1)

\* a step of Spec that is a query call: the queries are the only steps
\* that leave every loadRealDataset() call where it is
QueryStep == calls' = calls

(* C5: a query call leaves every cached collection with the same elements  *)
(* in the same order.                                                      *)
C5_QueriesReadOnly == [][QueryStep => dataCache' = dataCache]_vars

\* the default each query documents for the Unloaded state; for the
\* summary, the fields the claim names
IsDefault(q) ==
    IF q.op = "getDashboardSummary"
    THEN /\ q.result.totalCampaigns = 0
         /\ q.result.totalRecords = 0
         /\ q.result.activeCampaigns = 0
         /\ q.result.avgROI = 0
         /\ q.result.avgEngagement = 0
         /\ q.result.pipelineHealth = 100
    ELSE q.result = <<>>

(* C6: while no load has succeeded, every query returns its default: the   *)
(* empty list, and for the summary zero totals, zero active campaigns,     *)
(* zero averages and pipelineHealth 100.                                   *)
C6_UnloadedDefaults ==
    [][(QueryStep /\ Succeeded = {}) => IsDefault(lastQuery')]_vars

\* the summary was asked after a load had failed and none had succeeded
C6_Witness ==
    /\ Succeeded = {}
    /\ Failed # {}
    /\ lastQuery.op = "getDashboardSummary"
    /\ lastQuery.asked >= 1
    /\ IsDefault(lastQuery)

---------------------------------------------------------------------------
(* The Dashboard's fetches *)

Outstanding == {l \in CallIds : calls[l].pc \in {"fetching", "decoding", "parsed"}}
Finished == {l \in CallIds : calls[l].pc = "finished"}

(* C7 as stated: after the first load() the dashboard issues no other, so  *)
(* at most one loadRealDataset() call is ever made.                        *)
C7_LoadedOnce == Cardinality(Started) <= 1

(* C7, amended: the dashboard issues a load() when it mounts and again on  *)
(* every tick of its 30 s refresh interval, and at no other time: each     *)
(* step starts at most one call, and a call starts only in the step that   *)
(* mounts the component or while the component is mounted with its         *)
(* interval armed; once it has unmounted no call starts.                   *)
C7_LoadsOnMountAndTicks ==
    [][ Started' # Started =>
          /\ Cardinality(Started') = Cardinality(Started) + 1
          /\ \/ mounted = "no" /\ mounted' = "yes" /\ Started = {}
             \/ mounted = "yes" /\ mounted' = "yes" /\ interval /\ Started # {} ]_vars

\* a refresh tick has issued a second load() while the component is mounted
C7_Witness ==
    /\ mounted = "yes"
    /\ calls[1].pc = "finished"
    /\ calls[2].pc = "fetching"

IsFallbackSummary(d) ==
    /\ d.totalCampaigns = FallbackDashboardMetrics.totalCampaigns
    /\ d.activeCampaigns = FallbackDashboardMetrics.activeCampaigns
    /\ d.avgROI = FallbackDashboardMetrics.avgROI
    /\ d.avgEngagement = FallbackDashboardMetrics.avgEngagement
    /\ d.pipelineHealth = FallbackDashboardMetrics.pipelineHealth

IsFallbackSensors(m) ==
    /\ Len(m.sensors) = Len(FallbackSensors)
    /\ \A i \in 1..Len(FallbackSensors) :
          /\ m.sensors[i].name = FallbackSensors[i].name
          /\ m.sensors[i].value = FallbackSensors[i].value

(* C8: when the fetchData() of a failed load finishes on the mounted       *)
(* dashboard, the dashboard leaves the loading state and shows the fixed   *)
(* fallback summary metrics and the fixed fallback sensor list.            *)
C8_FallbackShownAfterFailure ==
    [][ \A l \in CallIds :
          (/\ mounted = "yes"
           /\ calls[l].pc = "returned" /\ calls[l].result = "null"
           /\ calls'[l].pc = "finished")
          => /\ ~ShowsLoadingIndicator'
             /\ IsFallbackSummary(dashboardData'.value)
             /\ IsFallbackSensors(sensorMetrics'.value) ]_vars

(* C9 as stated: whenever a fetch of the mounted dashboard is outstanding, *)
(* the loading indicator is displayed.                                     *)
C9_LoadingWhileOutstanding ==
    (mounted = "yes" /\ Outstanding # {}) => ShowsLoadingIndicator

(* C9, amended: the mounted dashboard displays the loading indicator       *)
(* exactly until the first of its fetches finishes: it is displayed while  *)
(* no fetchData() has finished, and not displayed once one has, also while *)
(* later refresh fetches are outstanding.                                  *)
C9_LoadingUntilFirstFinish ==
    mounted = "yes" => (ShowsLoadingIndicator <=> Finished = {})

\* the initial fetch is outstanding with the indicator displayed
C9_Witness ==
    /\ mounted = "yes"
    /\ calls[1].pc = "decoding"
    /\ Finished = {}
    /\ ShowsLoadingIndicator

---------------------------------------------------------------------------
(* getLatestCampaigns on generated collections *)

(* C10: for a loaded campaign collection of size count and a limit n >= 0, *)
(* getLatestCampaigns(n) returns min(n, count) campaigns, in descending    *)
(* order of created_at, and no campaign left out was created later than a  *)
(* returned one.                                                           *)
C10_LatestCampaigns ==
    (lastQuery.op = "getLatestCampaigns" /\ lastQuery.args[1] >= 0) =>
        LET out == lastQuery.result
            all == dataCache.campaigns.value
            rest == Range(all) \ Range(out)
        IN  /\ Len(out) = Min(lastQuery.args[1], Len(all))
            /\ Range(out) \subseteq Range(all)
            /\ Cardinality(Range(out)) = Len(out)
            /\ \A i \in 1..(Len(out) - 1) :
                  GetTime(out[i].created_at) >= GetTime(out[i + 1].created_at)
            /\ \A x \in Range(out), y \in rest :
                  GetTime(x.created_at) >= GetTime(y.created_at)

\* two of three campaigns were asked for, and the input was not already in
\* descending order
C10_Witness ==
    /\ lastQuery.op = "getLatestCampaigns"
    /\ lastQuery.args[1] = 2
    /\ Len(dataCache.campaigns.value) = 3
    /\ Len(lastQuery.result) = 2
    /\ GetTime(lastQuery.result[1].created_at) > GetTime(lastQuery.result[2].created_at)
    /\ lastQuery.result[1].campaign_id = "c3"

(* C11: getLatestCampaigns(limit) returns the empty list for every         *)
(* limit <= 0, whatever campaigns are loaded.                              *)
C11_NonPositiveLimitEmpty ==
    (lastQuery.op = "getLatestCampaigns" /\ lastQuery.args[1] <= 0) =>
        lastQuery.result = <<>>

---------------------------------------------------------------------------
(* Brand performance *)

BrandsOf(campaigns) == {campaigns[i].brand : i \in 1..Len(campaigns)}

CampaignsOf(campaigns, brand) ==
    {i \in 1..Len(campaigns) : campaigns[i].brand = brand}

\* the rows of the campaigns of a brand
RowsOfBrand(campaigns, metrics, brand) ==
    {j \in 1..Len(metrics) :
        \E i \in CampaignsOf(campaigns, brand) :
            metrics[j].campaign_id = campaigns[i].campaign_id}

\* row j is one of the WindowRows most recent rows of its campaign: fewer
\* than WindowRows rows of that campaign are dated later
IsRecentRow(metrics, j) ==
    Cardinality({k \in 1..Len(metrics) :
                    /\ metrics[k].campaign_id = metrics[j].campaign_id
                    /\ GetTime(metrics[k].date) > GetTime(metrics[j].date)})
        < WindowRows

RecentRowsOfBrand(campaigns, metrics, brand) ==
    {j \in RowsOfBrand(campaigns, metrics, brand) : IsRecentRow(metrics, j)}

RECURSIVE SumOfRows(_, _, _)
SumOfRows(metrics, rows, field) ==
    IF rows = {} THEN 0
    ELSE LET j == CHOOSE x \in rows : TRUE
         IN  metrics[j][field] + SumOfRows(metrics, rows \ {j}, field)

\* the campaigns of a brand that have metric rows
MeasuredCampaigns(campaigns, metrics, brand) ==
    {i \in CampaignsOf(campaigns, brand) :
        \E j \in 1..Len(metrics) : metrics[j].campaign_id = campaigns[i].campaign_id}

(* C12: when a brand has two or more campaigns with metric rows, the       *)
(* brand's avgROI and avgEngagement are taken over the recent-row windows  *)
(* of all of those campaigns together, as totalReach is: each is the sum   *)
(* over all those rows divided by their number.                            *)
C12_AveragesAcrossCampaigns ==
    lastQuery.op = "getBrandPerformance" =>
        LET c == dataCache.campaigns.value
            m == dataCache.metrics.value
            r == lastQuery.result
        IN  \A e \in 1..Len(r) :
                Cardinality(MeasuredCampaigns(c, m, r[e].brand)) >= 2 =>
                    LET rows == RecentRowsOfBrand(c, m, r[e].brand)
                    IN  /\ r[e].avgROI =
                             Frac(SumOfRows(m, rows, "roi"), Cardinality(rows))
                        /\ r[e].avgEngagement =
                             Frac(SumOfRows(m, rows, "engagement_rate"),
                                  Cardinality(rows))

(* C13: getBrandPerformance returns one entry per distinct brand; its      *)
(* campaigns field counts the campaigns of the brand, with or without      *)
(* metric rows; its totalReach is the sum of reach over the WindowRows     *)
(* most recent rows of each campaign of the brand, so an older row adds    *)
(* nothing.                                                                *)
C13_BrandEntries ==
    lastQuery.op = "getBrandPerformance" =>
        LET c == dataCache.campaigns.value
            m == dataCache.metrics.value
            r == lastQuery.result
        IN  /\ Len(r) = Cardinality(BrandsOf(c))
            /\ \A b \in BrandsOf(c) : \E e \in 1..Len(r) : r[e].brand = b
            /\ \A e \in 1..Len(r) :
                  /\ r[e].campaigns = Cardinality(CampaignsOf(c, r[e].brand))
                  /\ r[e].totalReach =
                        SumOfRows(m, RecentRowsOfBrand(c, m, r[e].brand), "reach")

\* a brand of three campaigns, one of them with more than WindowRows rows:
\* its oldest row is left out of the total
C13_Witness ==
    /\ lastQuery.op = "getBrandPerformance"
    /\ \E e \in 1..Len(lastQuery.result) :
          LET c == dataCache.campaigns.value
              m == dataCache.metrics.value
              b == lastQuery.result[e].brand
          IN  /\ lastQuery.result[e].campaigns = 3
              /\ RecentRowsOfBrand(c, m, b) # RowsOfBrand(c, m, b)
              /\ lastQuery.result[e].totalReach <
                    SumOfRows(m, RowsOfBrand(c, m, b), "reach")

(* C14: with campaigns loaded and no metric rows, getBrandPerformance      *)
(* returns an entry for every brand with avgROI 0, avgEngagement 0 and     *)
(* totalReach 0; and no entry ever holds the quotient of a division by a   *)
(* row count of zero.                                                      *)
C14_NoMetricsZeroes ==
    lastQuery.op = "getBrandPerformance" =>
        LET c == dataCache.campaigns.value
            m == dataCache.metrics.value
            r == lastQuery.result
        IN  /\ \A e \in 1..Len(r) :
                  r[e].avgROI.den > 0 /\ r[e].avgEngagement.den > 0
            /\ (c # <<>> /\ m = <<>>) =>
                  /\ \A b \in BrandsOf(c) : \E e \in 1..Len(r) : r[e].brand = b
                  /\ \A e \in 1..Len(r) :
                        /\ r[e].avgROI = Zero
                        /\ r[e].avgEngagement = Zero
                        /\ r[e].totalReach = 0

C14_Witness ==
    /\ lastQuery.op = "getBrandPerformance"
    /\ dataCache.metrics.value = <<>>
    /\ Len(lastQuery.result) = 2
    /\ lastQuery.result[1].campaigns = 2

---------------------------------------------------------------------------
(* Active campaigns *)

IsRunning(c, now) ==
    /\ c.status = "Active"
    /\ GetTime(c.start_date) <= GetTime(now)
    /\ GetTime(now) <= GetTime(c.end_date)

(* C15: at every instant now, getActiveCampaigns returns exactly the       *)
(* loaded campaigns whose status is "Active" and whose start_date <= now   *)
(* <= end_date, both ends included; a campaign of another status is never  *)
(* returned.                                                               *)
C15_ActiveCampaigns ==
    lastQuery.op = "getActiveCampaigns" =>
        LET c == dataCache.campaigns.value
            now == lastQuery.args[1]
            r == lastQuery.result
        IN  /\ \A x \in Range(c) \cup Range(r) :
                  Occurrences(r, x) =
                     IF IsRunning(x, now) THEN Occurrences(c, x) ELSE 0
            /\ \A i \in 1..Len(r) : r[i].status = "Active"

\* asked at the very instant a returned campaign ends, which is also the
\* start of a loaded campaign of another status
C15_Witness ==
    /\ lastQuery.op = "getActiveCampaigns"
    /\ \E i \in 1..Len(lastQuery.result) :
          /\ lastQuery.result[i].end_date = lastQuery.args[1]
          /\ lastQuery.result[i].start_date # lastQuery.args[1]
    /\ \E i \in 1..Len(dataCache.campaigns.value) :
          /\ dataCache.campaigns.value[i].status # "Active"
          /\ dataCache.campaigns.value[i].start_date = lastQuery.args[1]

---------------------------------------------------------------------------
(* Campaign metrics *)

(* C16: getCampaignMetrics(campaignId) returns exactly the metric rows     *)
(* whose campaign_id is campaignId, in ascending order of date, and the    *)
(* empty list, with no error, for an id no row has.                        *)
C16_CampaignMetrics ==
    lastQuery.op = "getCampaignMetrics" =>
        LET m == dataCache.metrics.value
            id == lastQuery.args[1]
            r == lastQuery.result
        IN  /\ \A x \in Range(m) \cup Range(r) :
                  Occurrences(r, x) =
                     IF x.campaign_id = id THEN Occurrences(m, x) ELSE 0
            /\ \A i \in 1..Len(r), j \in 1..Len(r) :
                  i < j => GetTime(r[i].date) <= GetTime(r[j].date)
            /\ (\A j \in 1..Len(m) : m[j].campaign_id # id) => r = <<>>

\* rows stored newest first come back oldest first; an unknown id has none
C16_Witness ==
    /\ lastQuery.op = "getCampaignMetrics"
    /\ Len(lastQuery.result) >= 2
    /\ lastQuery.result # SelectSeq(dataCache.metrics.value,
                             LAMBDA x : x.campaign_id = lastQuery.args[1])

---------------------------------------------------------------------------
(* Sensor status *)

TypesOf(sensors) == {sensors[i].sensor_type : i \in 1..Len(sensors)}

\* the readings of a type that carry the greatest timestamp of the type
LatestOfType(sensors, type) ==
    {k \in 1..Len(sensors) :
        /\ sensors[k].sensor_type = type
        /\ \A j \in 1..Len(sensors) :
              sensors[j].sensor_type = type =>
                 GetTime(sensors[j].timestamp) <= GetTime(sensors[k].timestamp)}

FirstOf(indices) == CHOOSE k \in indices : \A j \in indices : k <= j

\* what an entry carries of a reading
Carried(x) == [value |-> x.value, status |-> x.status, timestamp |-> x.timestamp]

CarriedBy(entries) == {Carried(entries[e]) : e \in 1..Len(entries)}

Orderings(n) ==
    {f \in [1..n -> 1..n] : \A i \in 1..n, j \in 1..n : f[i] = f[j] => i = j}

\* the entries getSensorStatus returns for the readings taken in order f
StatusInOrder(sensors, f) ==
    getSensorStatus(LoadedCache(<<>>, <<>>, [i \in 1..Len(sensors) |-> sensors[f[i]]]),
                    CHOOSE rnd \in Streams : TRUE)

(* C17: getSensorStatus returns one entry per distinct sensor_type, with   *)
(* the value, status and timestamp of the reading of that type that has    *)
(* the greatest timestamp, and returns the same entries for the readings   *)
(* taken in any other order.                                               *)
C17_LatestReadingAnyOrder ==
    lastQuery.op = "getSensorStatus" =>
        LET s == dataCache.sensors.value
            r == lastQuery.result
        IN  /\ Len(r) = Cardinality(TypesOf(s))
            /\ \A t \in TypesOf(s) :
                  \E k \in LatestOfType(s, t) : Carried(s[k]) \in CarriedBy(r)
            /\ \A f \in Orderings(Len(s)) :
                  CarriedBy(StatusInOrder(s, f)) = CarriedBy(r)

(* C17, amended: getSensorStatus returns one entry per distinct            *)
(* sensor_type, with the value, status and timestamp of a reading of that  *)
(* type that has the greatest timestamp: the first such reading in the     *)
(* collection when several share it.  For a type whose greatest timestamp  *)
(* belongs to one reading, the readings taken in any other order give the  *)
(* same entry.                                                             *)
C17_LatestReadingFirstOfTies ==
    lastQuery.op = "getSensorStatus" =>
        LET s == dataCache.sensors.value
            r == lastQuery.result
        IN  /\ Len(r) = Cardinality(TypesOf(s))
            /\ \A t \in TypesOf(s) :
                  /\ Carried(s[FirstOf(LatestOfType(s, t))]) \in CarriedBy(r)
                  /\ Cardinality(LatestOfType(s, t)) = 1 =>
                        \A f \in Orderings(Len(s)) :
                           Carried(s[FirstOf(LatestOfType(s, t))])
                              \in CarriedBy(StatusInOrder(s, f))

\* three readings of one type: a FAIL at the latest time stored first, an
\* earlier OK, and an OK that shares the latest time; the one entry is FAIL
C17_Witness ==
    /\ lastQuery.op = "getSensorStatus"
    /\ Len(lastQuery.result) = 1
    /\ Len(dataCache.sensors.value) = 3
    /\ LatestOfType(dataCache.sensors.value,
                    dataCache.sensors.value[1].sensor_type) = {1, 3}
    /\ dataCache.sensors.value[1].status = "FAIL"
    /\ dataCache.sensors.value[2].status = "OK"
    /\ dataCache.sensors.value[3].status = "OK"
    /\ lastQuery.result[1].status = "FAIL"

(* C18: the name of every entry of getSensorStatus has no underscore left, *)
(* whatever the sensor_type, one with two or more underscores included.    *)
C18_NameHasNoUnderscore ==
    lastQuery.op = "getSensorStatus" =>
        \A e \in 1..Len(lastQuery.result) :
            "_" \notin Range(lastQuery.result[e].name)

---------------------------------------------------------------------------
(* Performance trends *)

(* C19: getPerformanceTrends(days) returns an empty series for every       *)
(* days <= 0, whatever metric rows are loaded, rows dated after the        *)
(* current time included.                                                  *)
C19_NonPositiveDaysEmpty ==
    (lastQuery.op = "getPerformanceTrends" /\ lastQuery.args[1] <= 0) =>
        lastQuery.result = <<>>

\* the rows dated on or after now minus days
RowsSince(metrics, days, now) ==
    {j \in 1..Len(metrics) :
        GetTime(metrics[j].date) >= GetTime(now) - days * TicksPerDay}

RowsOfDate(metrics, rows, date) ==
    {j \in rows : metrics[j].date.day = date.day}

\* the entries are one per calendar date of the rows, oldest date first,
\* each with the summed reach of the rows of its date
TrendDatesAndReach(m, rows, r) ==
    /\ Len(r) = Cardinality({m[j].date.day : j \in rows})
    /\ \A j \in rows : \E e \in 1..Len(r) : r[e].date.day = m[j].date.day
    /\ \A e \in 1..Len(r), f \in 1..Len(r) :
          e < f => r[e].date.day < r[f].date.day
    /\ \A e \in 1..Len(r) :
          r[e].totalReach = SumOfRows(m, RowsOfDate(m, rows, r[e].date), "reach")

(* C20: for days > 0, getPerformanceTrends(days) returns one entry per     *)
(* calendar date of the metric rows dated on or after now minus days, no   *)
(* date twice, oldest date first; an entry holds the mean ROI, the mean    *)
(* engagement rate and the summed reach of exactly the rows of its date;   *)
(* a row before the cutoff counts in no entry.  The averages are in        *)
(* hundredths: an entry holds the mean when its average times the number   *)
(* of rows is a hundred times their sum.                                   *)
C20_DailyMeans ==
    (lastQuery.op = "getPerformanceTrends" /\ lastQuery.args[1] > 0) =>
        LET m == dataCache.metrics.value
            r == lastQuery.result
            rows == RowsSince(m, lastQuery.args[1], lastQuery.args[2])
        IN  /\ TrendDatesAndReach(m, rows, r)
            /\ \A e \in 1..Len(r) :
                  LET mine == RowsOfDate(m, rows, r[e].date)
                  IN  /\ r[e].avgROI * Cardinality(mine) =
                            100 * SumOfRows(m, mine, "roi")
                      /\ r[e].avgEngagement * Cardinality(mine) =
                            100 * SumOfRows(m, mine, "engagement_rate")

\* avg, in hundredths, is sum / n rounded to two decimals
IsRoundedMean(avg, sum, n) ==
    /\ 2 * (avg * n - 100 * sum) <= n
    /\ 2 * (100 * sum - avg * n) <= n

(* C20, amended: as C20, but an entry holds the mean ROI and the mean      *)
(* engagement rate of the rows of its date rounded to two decimals.        *)
C20_DailyMeansRounded ==
    (lastQuery.op = "getPerformanceTrends" /\ lastQuery.args[1] > 0) =>
        LET m == dataCache.metrics.value
            r == lastQuery.result
            rows == RowsSince(m, lastQuery.args[1], lastQuery.args[2])
        IN  /\ TrendDatesAndReach(m, rows, r)
            /\ \A e \in 1..Len(r) :
                  LET mine == RowsOfDate(m, rows, r[e].date)
                  IN  /\ IsRoundedMean(r[e].avgROI, SumOfRows(m, mine, "roi"),
                                       Cardinality(mine))
                      /\ IsRoundedMean(r[e].avgEngagement,
                                       SumOfRows(m, mine, "engagement_rate"),
                                       Cardinality(mine))

\* three rows of one date with ROI 3, 5 and 5: the entry holds 4.33
C20_Witness ==
    /\ lastQuery.op = "getPerformanceTrends"
    /\ lastQuery.args[1] > 0
    /\ Len(lastQuery.result) = 1
    /\ lastQuery.result[1].avgROI = 433
    /\ lastQuery.result[1].totalReach = 600

\* the series getPerformanceTrends returns for the rows taken in order f
TrendsInOrder(metrics, f, days, now) ==
    getPerformanceTrends(
        LoadedCache(<<>>, [i \in 1..Len(metrics) |-> metrics[f[i]]], <<>>),
        days, now)

---------------------------------------------------------------------------
(* Dashboard summary *)

\* p is num / den rounded to the nearest integer
IsNearest(p, num, den) ==
    /\ 2 * (p * den - num) <= den
    /\ 2 * (num - p * den) <= den

\* the sensor types whose latest reading, the first of them in the
\* collection when several share the greatest timestamp, has status OK
HealthyTypes(sensors) ==
    {t \in TypesOf(sensors) : sensors[FirstOf(LatestOfType(sensors, t))].status = "OK"}

(* C22: the pipelineHealth of getDashboardSummary is 100 when there are    *)
(* no sensor readings, loaded or not, and otherwise 100 * K / D rounded,   *)
(* D the number of distinct sensor types and K the number of types whose   *)
(* latest reading has status OK; the other readings do not count.          *)
C22_PipelineHealth ==
    lastQuery.op = "getDashboardSummary" =>
        LET s == OrEmpty(dataCache.sensors)
            h == lastQuery.result.pipelineHealth
        IN  IF s = <<>> THEN h = 100
            ELSE IsNearest(h, 100 * Cardinality(HealthyTypes(s)),
                           Cardinality(TypesOf(s)))

\* two types: one whose later reading, stored first, is OK and whose
\* earlier reading is FAIL, the other failing: 50
C22_Witness ==
    /\ lastQuery.op = "getDashboardSummary"
    /\ lastQuery.result.pipelineHealth = 50
    /\ Len(dataCache.sensors.value) = 3
    /\ Cardinality(TypesOf(dataCache.sensors.value)) = 2
    /\ dataCache.sensors.value[1].sensor_type = dataCache.sensors.value[2].sensor_type
    /\ dataCache.sensors.value[1].status = "OK"
    /\ dataCache.sensors.value[2].status = "FAIL"
    /\ GetTime(dataCache.sensors.value[1].timestamp)
          > GetTime(dataCache.sensors.value[2].timestamp)

\* the rows the summary averages: the last RecentRows rows as stored
FirstRecent(metrics) == Max(Len(metrics) - RecentRows, 0) + 1

(* C23: the avgROI and avgEngagement of getDashboardSummary are the means  *)
(* over the last min(RecentRows, count) metric rows in stored order, not   *)
(* sorted by date; earlier rows never count; both are 0 with no rows.      *)
(* The averages are in tenths: an average is the mean when the average     *)
(* times the number of rows is ten times their sum.                        *)
C23_RecentMeans ==
    lastQuery.op = "getDashboardSummary" =>
        LET m == OrEmpty(dataCache.metrics)
            n == Len(m) - FirstRecent(m) + 1
            r == lastQuery.result
        IN  IF m = <<>> THEN r.avgROI = 0 /\ r.avgEngagement = 0
            ELSE /\ r.avgROI * n = 10 * SumRange(m, "roi", FirstRecent(m), Len(m))
                 /\ r.avgEngagement * n =
                       10 * SumRange(m, "engagement_rate", FirstRecent(m), Len(m))

(* C23, amended: as C23, but the two averages are the means rounded to one *)
(* decimal.                                                                *)
C23_RecentMeansRounded ==
    lastQuery.op = "getDashboardSummary" =>
        LET m == OrEmpty(dataCache.metrics)
            n == Len(m) - FirstRecent(m) + 1
            r == lastQuery.result
        IN  IF m = <<>> THEN r.avgROI = 0 /\ r.avgEngagement = 0
            ELSE /\ IsNearest(r.avgROI,
                              10 * SumRange(m, "roi", FirstRecent(m), Len(m)), n)
                 /\ IsNearest(r.avgEngagement,
                              10 * SumRange(m, "engagement_rate", FirstRecent(m),
                                            Len(m)), n)

\* more than RecentRows rows stored newest first, the first of them, the
\* newest by date, with the high values: the averages are those of the low
\* rows alone
C23_Witness ==
    /\ lastQuery.op = "getDashboardSummary"
    /\ Len(dataCache.metrics.value) > RecentRows
    /\ dataCache.metrics.value[1].roi = 900
    /\ dataCache.metrics.value[1].date.day > dataCache.metrics.value[2].date.day
    /\ lastQuery.result.avgROI = 40
    /\ lastQuery.result.avgEngagement = 20

---------------------------------------------------------------------------
(* Model performance *)

ModelTypesOf(models) == {models[i].model_type : i \in 1..Len(models)}

\* the rows of a type that carry the greatest date of the type
LatestOfModelType(models, type) ==
    {k \in 1..Len(models) :
        /\ models[k].model_type = type
        /\ \A j \in 1..Len(models) :
              models[j].model_type = type =>
                 GetTime(models[j].date) <= GetTime(models[k].date)}

\* the rows getModelPerformance returns for the rows taken in order f
ModelsInOrder(models, f) ==
    getModelPerformance(
        [LoadedCache(<<>>, <<>>, <<>>) EXCEPT
            !.models.value = [i \in 1..Len(models) |-> models[f[i]]]])

(* C24: getModelPerformance returns one row per distinct model_type, the   *)
(* row of that type with the greatest date, and returns the same rows for  *)
(* the collection taken in any other order.                                *)
C24_LatestModelAnyOrder ==
    lastQuery.op = "getModelPerformance" =>
        LET m == dataCache.models.value
            r == lastQuery.result
        IN  /\ Len(r) = Cardinality(ModelTypesOf(m))
            /\ \A t \in ModelTypesOf(m) :
                  \E k \in LatestOfModelType(m, t) : m[k] \in Range(r)
            /\ \A f \in Orderings(Len(m)) : Range(ModelsInOrder(m, f)) = Range(r)

(* C24, amended: getModelPerformance returns one row per distinct          *)
(* model_type, a row of that type with the greatest date: the first such   *)
(* row in the collection when several share it.  For a type whose greatest *)
(* date belongs to one row, the collection taken in any other order gives  *)
(* the same row.                                                           *)
C24_LatestModelFirstOfTies ==
    lastQuery.op = "getModelPerformance" =>
        LET m == dataCache.models.value
            r == lastQuery.result
        IN  /\ Len(r) = Cardinality(ModelTypesOf(m))
            /\ \A t \in ModelTypesOf(m) :
                  /\ m[FirstOf(LatestOfModelType(m, t))] \in Range(r)
                  /\ Cardinality(LatestOfModelType(m, t)) = 1 =>
                        \A f \in Orderings(Len(m)) :
                           m[FirstOf(LatestOfModelType(m, t))]
                              \in Range(ModelsInOrder(m, f))

\* three rows of one type: the newest stored first, an older one, and one
\* that shares the newest date; the row returned is the first
C24_Witness ==
    /\ lastQuery.op = "getModelPerformance"
    /\ Len(dataCache.models.value) = 3
    /\ LatestOfModelType(dataCache.models.value,
                         dataCache.models.value[1].model_type) = {1, 3}
    /\ dataCache.models.value[2].model_type = dataCache.models.value[1].model_type
    /\ lastQuery.result = <<dataCache.models.value[1]>>

---------------------------------------------------------------------------
(* The retrain function on its own: requests arrive and their handlers     *)
(* run, interleaved at the awaits.                                         *)

RetrainNext ==
    \/ \E r \in RequestIds, method \in Methods, clientOk \in BOOLEAN :
          Receive(r, method, clientOk)
    \/ \E r \in RequestIds : InsertCommitted(r)
    \/ \E r \in RequestIds : InsertFailed(r)
    \/ \E r \in RequestIds : InsertReturned(r)
    \/ \E r \in RequestIds, ok \in BOOLEAN : WebhookFulfilled(r, ok)
    \/ \E r \in RequestIds : WebhookRejected(r)

RetrainSpec == Init /\ [][RetrainNext]_vars

JobsOf(table, r) == {k \in 1..Len(table) : table[k].by = r}

CallsOf(sent, r) == {k \in 1..Len(sent) : sent[k].by = r}

(* C25: a step that calls the webhook makes one call, for a request whose  *)
(* row is already in the table with status pending, and the call carries   *)
(* the id of that row; a step that inserts a row inserts one row, pending, *)
(* for a request that is not OPTIONS; a request whose insert has not       *)
(* succeeded has no webhook call, an OPTIONS request has no row and no     *)
(* call, and no request has more than one row or more than one call.       *)
C25_InsertThenWebhook ==
    [][ /\ Len(webhookCalls') >= Len(webhookCalls)
        /\ Len(webhookCalls') > Len(webhookCalls) =>
              /\ Len(webhookCalls') = Len(webhookCalls) + 1
              /\ LET call == webhookCalls'[Len(webhookCalls')]
                 IN  \E k \in 1..Len(jobs) :
                        /\ jobs[k].by = call.by
                        /\ jobs[k].id = call.jobId
                        /\ jobs[k].status = "pending"
        /\ Len(jobs') > Len(jobs) =>
              /\ Len(jobs') = Len(jobs) + 1
              /\ jobs'[Len(jobs')].status = "pending"
              /\ requests'[jobs'[Len(jobs')].by].method # "OPTIONS"
        /\ \A r \in RequestIds :
              /\ requests'[r].insert # "ok" => CallsOf(webhookCalls', r) = {}
              /\ requests'[r].method = "OPTIONS" =>
                    JobsOf(jobs', r) = {} /\ CallsOf(webhookCalls', r) = {}
              /\ Cardinality(JobsOf(jobs', r)) <= 1
              /\ Cardinality(CallsOf(webhookCalls', r)) <= 1
      ]_vars

\* the first request's insert failed after its row was written, the second
\* request's webhook call carries the id of the second row
C25_Witness ==
    /\ requests[1].insert = "error"
    /\ Len(jobs) = 2
    /\ webhookCalls = <<[jobId |-> 2, by |-> 2]>>

---------------------------------------------------------------------------
(* The collaborator API on its own: the user submits the AskCes form and   *)
(* a caller calls apiClient.fetch, and the network answers.                *)

CollaboratorNext ==
    \/ HandleSubmit
    \/ \E outcome \in Outcomes : AskResponse(outcome)
    \/ \E parsed \in BOOLEAN : AskJson(parsed)
    \/ ApiFetch
    \/ \E hasSession \in BOOLEAN : ApiToken(hasSession)
    \/ \E outcome \in Outcomes : ApiResponse(outcome)
    \/ \E parsed \in BOOLEAN : ApiJson(parsed)

CollaboratorSpec == Init /\ [][CollaboratorNext]_vars

\* {error && ...}: a string that is shown
Displayable(error) == error # <<>> /\ error[1] # ""

(* C26: the step in which a request of apiClient.fetch ends without a 2xx  *)
(* response rejects the call with an Error and issues no request; the step *)
(* in which the request of AskCes ends without a 2xx response sets a       *)
(* displayable error, sets loading to false and issues no request; a       *)
(* request is issued only in a step that follows a new call or is a new    *)
(* submit, and the error of AskCes is set in no other step than the one    *)
(* that ends a request.                                                    *)
C26_FailureSurfacedOnce ==
    [][ /\ (api.pc = "fetching" /\ api'.pc = "settled") =>
              /\ api'.outcome \in {"notOk", "network"}
              /\ api'.result = "rejected"
              /\ api'.error.isError /\ api'.error.message # ""
              /\ api'.sent = api.sent /\ api'.calls = api.calls
        /\ api'.sent # api.sent =>
              api.pc = "token" /\ api'.sent = api.sent + 1
        /\ api'.sent <= api'.calls
        /\ (ask.pc = "fetching" /\ ask'.pc = "idle") =>
              /\ ask'.outcome \in {"notOk", "network"}
              /\ Displayable(ask'.error)
              /\ ~ask'.loading
              /\ ask'.sent = ask.sent
        /\ ask'.sent # ask.sent =>
              ask'.sent = ask.sent + 1 /\ ask'.submits = ask.submits + 1
        /\ ask'.sent = ask'.submits
        /\ (ask'.error # <<>> /\ ask.error = <<>>) => ask.pc \in {"fetching", "json"}
      ]_vars

\* the second submit of AskCes ended in a network error after the first had
\* ended in a non-2xx response, and a call of apiClient.fetch was rejected
\* for a non-2xx response
C26_Witness ==
    /\ ask.submits = 2 /\ ask.sent = 2
    /\ ask.outcome = "network"
    /\ ask.error = <<"Failed to fetch">>
    /\ ~ask.loading
    /\ api.outcome = "notOk"
    /\ api.result = "rejected"
    /\ api.sent = 1

---------------------------------------------------------------------------
(* Queries one after another on generated collections: up to MaxHistory    *)
(* campaigns of either brand, each created at the start of any day, stored *)
(* in any order, each with one metric row of its own.                      *)

MaxHistory == 2

\* the lists of n campaigns
HistoryCampaignLists(n) ==
    { [i \in 1..n |->
         Campaign(RowIds[i], brand[i], "Active", Date(1, 0), Date(MaxDay, 0),
                  created[i])] :
      brand \in [1..n -> Brands], created \in [1..n -> DayStarts] }

\* one metric row for each of n campaigns
HistoryMetrics(n) ==
    [i \in 1..n |-> Metric(i, RowIds[i], Date(1, 0), 2 * i + 1, i, 100 * i)]

HistoryInit ==
    /\ \E n \in 0..MaxHistory : \E c \in HistoryCampaignLists(n) :
          dataCache = LoadedCache(c, HistoryMetrics(n), <<>>)
    /\ OneLoadReturned

HistoryNext ==
    \/ \E limit \in Limits : LatestCampaigns(limit)
    \/ BrandPerformance
    \/ \E now \in Instants : ActiveCampaigns(now)
    \/ \E now \in SummaryNows, rnd \in Streams : DashboardSummary(now, rnd)

HistorySpec == HistoryInit /\ [][HistoryNext]_vars

(* C27: no query changes what a later query returns: across every step,    *)
(* getBrandPerformance, getActiveCampaigns (at every instant) and          *)
(* getDashboardSummary (at every instant, for every run of random draws)   *)
(* return after the step what they would have returned before it.          *)
C27_ResultsIndependentOfEarlierQueries ==
    [][ /\ getBrandPerformance(dataCache') = getBrandPerformance(dataCache)
        /\ \A now \in Instants :
              getActiveCampaigns(dataCache', now) = getActiveCampaigns(dataCache, now)
        /\ \A now \in Instants, rnd \in Streams :
              getDashboardSummary(dataCache', now, rnd) =
                 getDashboardSummary(dataCache, now, rnd)
      ]_vars

(* C28: rows of the table are never removed or changed; a request whose    *)
(* webhook call failed is answered 400 with an error body and its row is   *)
(* still pending; a request answered 200 with a jobId had its insert and   *)
(* its webhook call succeed, and the jobId is that of its row.             *)
C28_WebhookFailureLeavesPending ==
    [][ /\ Len(jobs') >= Len(jobs)
        /\ \A k \in 1..Len(jobs) : jobs'[k] = jobs[k]
        /\ \A r \in RequestIds :
              /\ requests'[r].webhook \in {"notOk", "network"} =>
                    /\ requests'[r].pc = "responded"
                    /\ requests'[r].status = 400
                    /\ requests'[r].body.kind = "error"
                    /\ \E k \in 1..Len(jobs') :
                          /\ jobs'[k].id = requests'[r].job
                          /\ jobs'[k].by = r
                          /\ jobs'[k].status = "pending"
              /\ (requests'[r].status = 200 /\ requests'[r].body.kind = "jobId") =>
                    /\ requests'[r].insert = "ok"
                    /\ requests'[r].webhook = "ok"
                    /\ requests'[r].body.jobId = requests'[r].job
                    /\ JobsOf(jobs', r) # {}
      ]_vars

\* one request answered 400 after a non-2xx webhook response, the other
\* answered 200 with its jobId
C28_Witness ==
    /\ requests[1].webhook = "notOk"
    /\ requests[1].status = 400
    /\ jobs[1].status = "pending"
    /\ requests[2].status = 200
    /\ requests[2].body = JobBody(2)

---------------------------------------------------------------------------
(* The DataUpload component on its own: files are handed over, intervals   *)
(* and timeouts fire, and the user removes listed files.  A started timer  *)
(* fires when it is due: every running interval keeps firing and every    *)
(* pending timeout fires (UploadFairSpec); what the user does is up to the *)
(* user.                                                                   *)

UploadNext ==
    \/ \E n \in 1..MaxFiles : HandleFiles(n)
    \/ \E id \in FileIds : UploadTick(id)
    \/ \E id \in FileIds : UploadTimeout(id)
    \/ \E id \in FileIds : RemoveFile(id)

UploadSpec == Init /\ [][UploadNext]_vars

UploadFairSpec ==
    /\ UploadSpec
    /\ \A id \in FileIds : WF_vars(UploadTick(id)) /\ WF_vars(UploadTimeout(id))

ProgressValues == {ProgressStep * k : k \in 0..(ProgressFull \div ProgressStep)}

\* the status of file id is completed
IsCompleted(list, id) == InList(list, id) /\ FileOf(list, id).status = "completed"

(* C29: across every step, a file that stays in the list keeps or raises   *)
(* its progress, which is one of 0, 10, ..., 100, and keeps its status or  *)
(* moves from uploading to processing (with progress 100) or from          *)
(* processing to completed; no file has status error; a new file starts    *)
(* uploading at 0; and a file in the list is eventually completed or       *)
(* removed.                                                                *)
C29_FileLifecycle ==
    /\ [][ /\ \A k \in 1..Len(files') :
                 /\ files'[k].progress \in ProgressValues
                 /\ files'[k].status \in {"uploading", "processing", "completed"}
                 /\ ~InList(files, files'[k].id) =>
                       files'[k].status = "uploading" /\ files'[k].progress = 0
           /\ \A id \in FileIds :
                 (InList(files, id) /\ InList(files', id)) =>
                    LET old == FileOf(files, id)
                        new == FileOf(files', id)
                    IN  /\ new.progress >= old.progress
                        /\ \/ new.status = old.status
                           \/ /\ old.status = "uploading"
                              /\ new.status = "processing"
                              /\ old.progress = ProgressFull
                              /\ new.progress = ProgressFull
                           \/ /\ old.status = "processing"
                              /\ new.status = "completed"
         ]_vars
    /\ \A id \in FileIds :
          InList(files, id) ~> (IsCompleted(files, id) \/ ~InList(files, id))

\* the first file was removed while uploading, the second ran through to
\* completed
C29_Witness ==
    /\ Uploaded = 2
    /\ files = <<[id |-> 2, status |-> "completed", progress |-> ProgressFull]>>
    /\ timers[1].interval = "running"
    /\ timers[2] = [interval |-> "cleared", timeout |-> "fired"]

(* C30: every interval that simulateUpload started is eventually cleared.  *)
C30_IntervalsCleared ==
    \A id \in FileIds :
       (timers[id].interval = "running") ~> (timers[id].interval = "cleared")

============================================================================
